---- MODULE Spec2Model ----
(***************************************************************************)
(* Weekly time encoding of terraform-provider-oncall: the conversion       *)
(* between (weekday name, "HH:MM" text) and seconds from the start of the  *)
(* week, as implemented in oncall/resource_basic_schedule.go.              *)
(*                                                                         *)
(* A Go string is modelled as a sequence of one-character strings, so that *)
(* strings.Split, strings.TrimLeft, strings.ToLower and strconv.Atoi are   *)
(* computed character by character as the library computes them.           *)
(* An error value is the chain of its messages, outermost first; the empty *)
(* chain is nil and errors.Wrap prepends a message.                        *)
(***************************************************************************)
EXTENDS Integers, Sequences, FiniteSets, TLC

VARIABLES weekday, startTime, op, hours, minutes, seconds, days, err

\* the Start of a schedule event as the API returns it
VARIABLES eventStart

offsetVars == <<eventStart>>

\* the Duration of a schedule event, the duration text of a shift, and the
\* seconds a duration text was parsed to
VARIABLES dur, durationString, parsedDuration

durVars == <<dur, durationString, parsedDuration>>

\* a composite key, the names it is made of and the names parsed out of it
VARIABLES id, team, roster, role, parsed

idVars == <<id, team, roster, role, parsed>>

\* the data of the resource a handler works on, the requests the handler
\* has sent to the API, and what the API holds
VARIABLES data, calls, server

crudVars == <<data, calls, server>>

keyVars == <<idVars, crudVars>>

\* the state the calls on a weekday and a clock text leave alone
otherVars == <<offsetVars, durVars, keyVars>>

vars == <<weekday, startTime, op, hours, minutes, seconds, days, err, otherVars>>

\* no event has been fetched
NoEvent == eventStart = 0

\* no duration is being converted
NoDuration == dur = 0 /\ durationString = <<>> /\ parsedDuration = 0

\* no key is being built or parsed
NoKey ==
  /\ id = <<>>
  /\ team = <<>>
  /\ roster = <<>>
  /\ role = <<>>
  /\ parsed = <<>>

\* no handler is running
NoResource == data = <<>> /\ calls = <<>> /\ server = <<>>

(***************************************************************************)
(* Bounds of the explored input space.                                     *)
(***************************************************************************)
\* longest free-form clock text drawn over TextAlphabet
MaxLen == 4
\* largest number of extra leading '0' characters put before a part
MaxPad == 2

(***************************************************************************)
(* Program constants: maze.io/x/duration Day, Hour, Minute in seconds.     *)
(***************************************************************************)
DaySeconds == 86400
HourSeconds == 3600
MinuteSeconds == 60

daysOfWeek ==
  << <<"S","u","n","d","a","y">>,
     <<"M","o","n","d","a","y">>,
     <<"T","u","e","s","d","a","y">>,
     <<"W","e","d","n","e","s","d","a","y">>,
     <<"T","h","u","r","s","d","a","y">>,
     <<"F","r","i","d","a","y">>,
     <<"S","a","t","u","r","d","a","y">> >>

nil == <<>>

(***************************************************************************)
(* Library functions used by the conversions.                              *)
(***************************************************************************)
Digits == <<"0","1","2","3","4","5","6","7","8","9">>

IsDigit(c) == \E d \in 1..10 : Digits[d] = c

DigitValue(c) == (CHOOSE d \in 1..10 : Digits[d] = c) - 1

UpperLetters ==
  <<"A","B","C","D","E","F","G","H","I","J","K","L","M",
    "N","O","P","Q","R","S","T","U","V","W","X","Y","Z">>

LowerLetters ==
  <<"a","b","c","d","e","f","g","h","i","j","k","l","m",
    "n","o","p","q","r","s","t","u","v","w","x","y","z">>

\* strings.ToLower on one character
LowerChar(c) ==
  IF \E k \in 1..26 : UpperLetters[k] = c
    THEN LowerLetters[CHOOSE k \in 1..26 : UpperLetters[k] = c]
    ELSE c

\* strings.ToLower
ToLower(s) == [k \in 1..Len(s) |-> LowerChar(s[k])]

\* strings.Split(s, sep) for a one-character separator: one part more than
\* there are separators in s
RECURSIVE Split(_, _)
Split(s, sep) ==
  IF \A k \in 1..Len(s) : s[k] /= sep
    THEN <<s>>
    ELSE LET first == CHOOSE k \in 1..Len(s) :
                        s[k] = sep /\ \A j \in 1..(k-1) : s[j] /= sep
         IN  <<SubSeq(s, 1, first - 1)>> \o Split(SubSeq(s, first + 1, Len(s)), sep)

\* strings.TrimLeft(s, cutset): drops the leading characters that are in cutset
RECURSIVE TrimLeft(_, _)
TrimLeft(s, cutset) ==
  IF s /= <<>> /\ s[1] \in cutset THEN TrimLeft(Tail(s), cutset) ELSE s

\* value of a sequence of decimal digits
RECURSIVE DecimalValue(_)
DecimalValue(s) ==
  IF s = <<>> THEN 0
  ELSE 10 * DecimalValue(SubSeq(s, 1, Len(s) - 1)) + DigitValue(s[Len(s)])

\* strconv.Atoi: an optional sign followed by at least one decimal digit.
\* The range error of Atoi needs 19 or more significant digits and is outside
\* the texts explored here.
Atoi(s) ==
  LET signed == s /= <<>> /\ s[1] \in {"+", "-"}
      body   == IF signed THEN Tail(s) ELSE s
  IN  IF body = <<>> \/ \E k \in 1..Len(body) : ~IsDigit(body[k])
        THEN [val |-> 0, err |-> <<"invalid syntax">>]
        ELSE [val |-> IF signed /\ s[1] = "-" THEN 0 - DecimalValue(body)
                                               ELSE DecimalValue(body),
              err |-> nil]

\* errors.Wrap / errors.Wrapf
Wrap(e, msg) == <<msg>> \o e

\* strconv.Itoa for n >= 0
RECURSIVE Itoa(_)
Itoa(n) ==
  IF n < 10 THEN <<Digits[n + 1]>>
  ELSE Itoa(n \div 10) \o <<Digits[(n % 10) + 1]>>

\* fmt.Sprintf("%02d", n)
Sprintf02d(n) ==
  IF n < 0 THEN <<"-">> \o Itoa(0 - n)
  ELSE IF n < 10 THEN <<"0">> \o Itoa(n)
  ELSE Itoa(n)

\* variant: the arguments are given in the other order
SprintfHHMM_swapped(h, m) == Sprintf02d(m) \o <<":">> \o Sprintf02d(h)

\* fmt.Sprintf("%02d:%02d", startHour, startMin)
SprintfHHMM(h, m) == Sprintf02d(h) \o <<":">> \o Sprintf02d(m)

(***************************************************************************)
(* The conversions.                                                        *)
(***************************************************************************)
\* variant: a third part is tolerated (len(splitTime) < 2 as the test)
splitIsHourMin_atLeastTwo(splitTime) == Len(splitTime) >= 2

\* the parts that are missing a second element, or have a third, are refused
splitIsHourMin(splitTime) == Len(splitTime) = 2

\* variant: the empty remainder is not replaced by "0"
trimLeadingZeros_keepEmpty(part) == TrimLeft(part, {"0"})

\* strings.TrimLeft(part, "0"), with the empty remainder replaced by "0"
trimLeadingZeros(part) ==
  LET trimmed == TrimLeft(part, {"0"})
  IN  IF trimmed = <<>> THEN <<"0">> ELSE trimmed

\* variant: hour 24 is let through (> for >=)
hoursOutOfRange_allow24(h) == h < 0 \/ h > 24

hoursOutOfRange(h) == h < 0 \/ h >= 24

\* variant: minute 60 is let through (> for >=)
minutesOutOfRange_allow60(m) == m < 0 \/ m > 60

minutesOutOfRange(m) == m < 0 \/ m >= 60

parseHourMinStr(hourMin) ==
  LET splitTime  == Split(hourMin, ":")
      hourString == trimLeadingZeros(splitTime[1])
      minString  == trimLeadingZeros(splitTime[2])
      h          == Atoi(hourString)
      m          == Atoi(minString)
  IN  IF ~splitIsHourMin(splitTime)
        THEN [hours |-> 0, minutes |-> 0,
              err |-> <<"Provided time must be in 24 hour format: HH:MM">>]
      ELSE IF h.err /= nil
        THEN [hours |-> h.val, minutes |-> 0,
              err |-> Wrap(h.err, "The part of your time before the colon is not a number")]
      ELSE IF m.err /= nil
        THEN [hours |-> h.val, minutes |-> m.val,
              err |-> Wrap(m.err, "The part of your time after the colon is not a number")]
      ELSE IF hoursOutOfRange(h.val)
        THEN [hours |-> h.val, minutes |-> m.val,
              err |-> <<"Your provided hours must be 0 - 23">>]
      ELSE IF minutesOutOfRange(m.val)
        THEN [hours |-> h.val, minutes |-> m.val,
              err |-> <<"Your provided minutes must be 0 - 59">>]
      ELSE [hours |-> h.val, minutes |-> m.val, err |-> nil]

\* Go's integer division and remainder, which truncate toward zero
GoDiv(a, b) == IF a >= 0 THEN a \div b ELSE 0 - ((0 - a) \div b)

GoMod(a, b) == a - b * GoDiv(a, b)

\* variant: the hours are taken from the whole offset instead of the time in the day
secondsToDayHourMinute_hoursOfWeek(secs) ==
  LET timeInDay == GoMod(secs, DaySeconds)
  IN  [days    |-> GoDiv(secs, DaySeconds),
       hours   |-> GoDiv(secs, HourSeconds),
       minutes |-> GoDiv(GoMod(timeInDay, HourSeconds), MinuteSeconds)]

\* variant: the day index is wrapped into the week
secondsToDayHourMinute_wrapDays(secs) ==
  LET timeInDay == GoMod(secs, DaySeconds)
  IN  [days    |-> GoMod(GoDiv(secs, DaySeconds), 7),
       hours   |-> GoDiv(timeInDay, HourSeconds),
       minutes |-> GoDiv(GoMod(timeInDay, HourSeconds), MinuteSeconds)]

\* math.Floor(float64(n)) of an integer quotient is the quotient itself
secondsToDayHourMinute(secs) ==
  LET timeInDay == GoMod(secs, DaySeconds)
  IN  [days    |-> GoDiv(secs, DaySeconds),
       hours   |-> GoDiv(timeInDay, HourSeconds),
       minutes |-> GoDiv(GoMod(timeInDay, HourSeconds), MinuteSeconds)]

\* variant: only the table entry is lower-cased
dayMatches_rawInput(day, wd) == ToLower(day) = wd

\* the comparison of the loop over daysOfWeek
dayMatches(day, wd) == ToLower(day) = ToLower(wd)

\* variant: numDays starts at 0 instead of -1
numDaysOf_startAtZero(wd) ==
  IF \E k \in 1..Len(daysOfWeek) : ToLower(daysOfWeek[k]) = ToLower(wd)
    THEN (CHOOSE k \in 1..Len(daysOfWeek) :
            /\ ToLower(daysOfWeek[k]) = ToLower(wd)
            /\ \A j \in 1..(k-1) : ToLower(daysOfWeek[j]) /= ToLower(wd)) - 1
    ELSE 0

\* the loop over daysOfWeek: index of the first matching name, the initial -1
\* when there is none
numDaysOf(wd) ==
  IF \E k \in 1..Len(daysOfWeek) : dayMatches(daysOfWeek[k], wd)
    THEN (CHOOSE k \in 1..Len(daysOfWeek) :
            /\ dayMatches(daysOfWeek[k], wd)
            /\ \A j \in 1..(k-1) : ~dayMatches(daysOfWeek[j], wd)) - 1
    ELSE -1

\* variant: the minutes are scaled by the seconds of an hour
weekSeconds_minuteAsHour(numDays, hour, min) ==
  numDays * DaySeconds + hour * HourSeconds + min * HourSeconds

\* the value returned on success
weekSeconds(numDays, hour, min) ==
  numDays * DaySeconds + hour * HourSeconds + min * MinuteSeconds

\* variant: the weekday is looked at before the clock text
weekdayStartTimeToSeconds_dayFirst(wd, st) ==
  LET hm      == parseHourMinStr(st)
      numDays == numDaysOf(wd)
  IN  IF numDays = -1
        THEN [seconds |-> -1, err |-> <<"You did not specify a valid day name">>]
      ELSE IF hm.err /= nil
        THEN [seconds |-> -1, err |-> Wrap(hm.err, "Failed to parse HH:MM input")]
      ELSE [seconds |-> weekSeconds(numDays, hm.hours, hm.minutes), err |-> nil]

weekdayStartTimeToSeconds(wd, st) ==
  LET hm      == parseHourMinStr(st)
      numDays == numDaysOf(wd)
  IN  IF hm.err /= nil
        THEN [seconds |-> -1, err |-> Wrap(hm.err, "Failed to parse HH:MM input")]
      ELSE IF numDays = -1
        THEN [seconds |-> -1, err |-> <<"You did not specify a valid day name">>]
      ELSE [seconds |-> weekSeconds(numDays, hm.hours, hm.minutes), err |-> nil]

stringSliceContains(slice, search) ==
  \E k \in 1..Len(slice) : slice[k] = search

\* the ValidateDiagFunc of start_day_of_week
validateStringSliceContains(slice, val) ==
  IF ~stringSliceContains(slice, val) THEN <<"Must be one of">> ELSE nil

\* the ValidateDiagFunc of start_time
validate24HourTime(in) ==
  LET hm == parseHourMinStr(in)
  IN  IF hm.err /= nil THEN Wrap(hm.err, "Invalid HH:MM entry") ELSE nil

(***************************************************************************)
(* Inputs: the weekday names and clock texts the conversions are called    *)
(* with.                                                                   *)
(***************************************************************************)
Zeros(k) == [j \in 1..k |-> "0"]

UpperChar(c) ==
  IF \E k \in 1..26 : LowerLetters[k] = c
    THEN UpperLetters[CHOOSE k \in 1..26 : LowerLetters[k] = c]
    ELSE c

\* every way of writing a name in upper and lower case letters
Recasings(name) ==
  { [k \in 1..Len(name) |-> IF k \in S THEN UpperChar(name[k]) ELSE LowerChar(name[k])] :
      S \in SUBSET (1..Len(name)) }

CanonicalDays == {daysOfWeek[k] : k \in 1..Len(daysOfWeek)}

RecasedDays == UNION {Recasings(d) : d \in CanonicalDays}

UnknownDays ==
  { <<"O","l","i","v","e","r","d","a","y">>,
    <<"M","o","n">>,
    <<"M","o","n","d","a","y","s">>,
    <<"o","n","d","a","y">>,
    <<"S","u","n"," ","d","a","y">>,
    <<>> }

WeekdayInputs == RecasedDays \cup UnknownDays

\* the days the free-form clock texts are combined with
SampleDays ==
  { <<"S","u","n","d","a","y">>,
    <<"s","a","t","u","r","d","a","y">>,
    <<"O","l","i","v","e","r","d","a","y">> }

\* the texts fmt.Sprintf("%02d:%02d") produces for a valid hour and minute
ValidClockTexts == {SprintfHHMM(h, m) : h \in 0..23, m \in 0..59}

TextAlphabet == {"0", "2", "6", ":", "+", "-", "P"}

FreeTexts == UNION {[1..n -> TextAlphabet] : n \in 0..MaxLen}

\* the clock texts of the tests and of the documentation
ExampleTexts ==
  { <<"0","0",":","0","0">>,
    <<"0","0",":","0","1">>,
    <<"2","3",":","5","8">>,
    <<"2","3",":","6","0">>,
    <<"2","4",":","0","0">>,
    <<"1","1",":","3","0"," ","P","M">>,
    <<"+","5",":","3","0">>,
    <<"-","5",":","3","0">>,
    <<"1","2","3","0">>,
    <<"1","2",":","3","0",":","0","0">>,
    <<"1","3",":","1","5">> }

PartSamples ==
  { <<>>, <<"0">>, <<"7">>, <<"5">>, <<"2","3">>, <<"2","4">>, <<"5","9">>, <<"6","0">> }

\* numeric parts written with extra leading zeros
PaddedTexts ==
  { Zeros(j) \o hp \o <<":">> \o Zeros(k) \o mp :
      j \in 0..MaxPad, k \in 0..MaxPad, hp \in PartSamples, mp \in PartSamples }

Inputs ==
  (CanonicalDays \X ValidClockTexts)
    \cup (WeekdayInputs \X {<<"2","3",":","5","8">>, <<"2","3",":","6","0">>})
    \cup (SampleDays \X (FreeTexts \cup ExampleTexts \cup PaddedTexts))

(***************************************************************************)
(* The state machine: one call of an operation on the inputs, and the      *)
(* inverse applied to a converted offset as Read does after Create.        *)
(***************************************************************************)
Init ==
  /\ \E in \in Inputs : weekday = in[1] /\ startTime = in[2]
  /\ op = "none"
  /\ hours = 0
  /\ minutes = 0
  /\ seconds = 0
  /\ days = 0
  /\ err = nil
  /\ NoEvent
  /\ NoDuration
  /\ NoKey
  /\ NoResource

ParseHourMinStr ==
  /\ op = "none"
  /\ LET r == parseHourMinStr(startTime)
     IN  /\ hours' = r.hours
         /\ minutes' = r.minutes
         /\ err' = r.err
  /\ op' = "parseHourMinStr"
  /\ UNCHANGED <<weekday, startTime, seconds, days>>
  /\ UNCHANGED otherVars

Validate24HourTime ==
  /\ op = "none"
  /\ err' = validate24HourTime(startTime)
  /\ op' = "validate24HourTime"
  /\ UNCHANGED <<weekday, startTime, hours, minutes, seconds, days>>
  /\ UNCHANGED otherVars

ValidateStartDayOfWeek ==
  /\ op = "none"
  /\ err' = validateStringSliceContains(daysOfWeek, weekday)
  /\ op' = "validateStartDayOfWeek"
  /\ UNCHANGED <<weekday, startTime, hours, minutes, seconds, days>>
  /\ UNCHANGED otherVars

WeekdayStartTimeToSeconds ==
  /\ op = "none"
  /\ LET r == weekdayStartTimeToSeconds(weekday, startTime)
     IN  /\ seconds' = r.seconds
         /\ err' = r.err
  /\ op' = "weekdayStartTimeToSeconds"
  /\ UNCHANGED <<weekday, startTime, hours, minutes, days>>
  /\ UNCHANGED otherVars

SecondsToDayHourMinute ==
  /\ op = "weekdayStartTimeToSeconds"
  /\ err = nil
  /\ LET r == secondsToDayHourMinute(seconds)
     IN  /\ days' = r.days
         /\ hours' = r.hours
         /\ minutes' = r.minutes
  /\ op' = "secondsToDayHourMinute"
  /\ UNCHANGED <<weekday, startTime, seconds, err>>
  /\ UNCHANGED otherVars

Next ==
  \/ ParseHourMinStr
  \/ Validate24HourTime
  \/ ValidateStartDayOfWeek
  \/ WeekdayStartTimeToSeconds
  \/ SecondsToDayHourMinute

Spec == Init /\ [][Next]_vars

TypeOK ==
  /\ op \in {"none", "parseHourMinStr", "validate24HourTime", "validateStartDayOfWeek",
              "weekdayStartTimeToSeconds", "secondsToDayHourMinute"}
  /\ hours \in Int
  /\ minutes \in Int
  /\ seconds \in Int
  /\ days \in Int

(***************************************************************************)
(* Durations: maze.io/x/duration.ParseDuration, which is time.ParseDuration *)
(* with the units d, w and y added, and prettyPrintDuration.  A Duration   *)
(* counts nanoseconds in an int64; it is held here as whole seconds and    *)
(* the nanoseconds below a second.                                         *)
(***************************************************************************)
WeekSeconds == 604800
YearSeconds == 31536000
SecondNanos == 1000000000

\* the units of unitMap: their length, and the largest count of them that
\* fits in an int64 of nanoseconds, (1<<63 - 1) / unit; for the second and
\* the units below it that count is beyond the numbers explored
unitMap ==
  { [name |-> <<"n","s">>, sec |-> 0,           ns |-> 1,       max |-> 2147483647],
    [name |-> <<"u","s">>, sec |-> 0,           ns |-> 1000,    max |-> 2147483647],
    [name |-> <<"m","s">>, sec |-> 0,           ns |-> 1000000, max |-> 2147483647],
    [name |-> <<"s">>,     sec |-> 1,           ns |-> 0,       max |-> 2147483647],
    [name |-> <<"m">>,     sec |-> MinuteSeconds, ns |-> 0,     max |-> 153722867],
    [name |-> <<"h">>,     sec |-> HourSeconds, ns |-> 0,       max |-> 2562047],
    [name |-> <<"d">>,     sec |-> DaySeconds,  ns |-> 0,       max |-> 106751],
    [name |-> <<"w">>,     sec |-> WeekSeconds, ns |-> 0,       max |-> 15250],
    [name |-> <<"y">>,     sec |-> YearSeconds, ns |-> 0,       max |-> 292] }

ZeroDuration == [sec |-> 0, ns |-> 0]

\* number of leading characters of s that are decimal digits (leadingInt,
\* leadingFraction)
RECURSIVE DigitPrefixLen(_)
DigitPrefixLen(s) ==
  IF s /= <<>> /\ IsDigit(s[1]) THEN 1 + DigitPrefixLen(Tail(s)) ELSE 0

\* number of leading characters of s that are neither a digit nor a period
RECURSIVE UnitPrefixLen(_)
UnitPrefixLen(s) ==
  IF s /= <<>> /\ ~(s[1] = "." \/ IsDigit(s[1])) THEN 1 + UnitPrefixLen(Tail(s)) ELSE 0

Drop(s, n) == SubSeq(s, n + 1, Len(s))

RECURSIVE Pow10(_)
Pow10(k) == IF k = 0 THEN 1 ELSE 10 * Pow10(k - 1)

\* v*unit + int64(float64(f) * (float64(unit) / scale))
TokenValue(v, f, scale, unit) ==
  IF unit.sec > 0
    THEN LET q == unit.sec \div scale
             r == unit.sec % scale
         IN  [sec |-> v * unit.sec + f * q + (f * r) \div scale,
              ns  |-> ((f * r) % scale) * (SecondNanos \div scale)]
    ELSE LET perSecond == SecondNanos \div unit.ns
             fracNs    == (f * unit.ns) \div scale
             wholeNs   == (v % perSecond) * unit.ns
         IN  [sec |-> v \div perSecond + (wholeNs + fracNs) \div SecondNanos,
              ns  |-> (wholeNs + fracNs) % SecondNanos]

AddDuration(a, b) ==
  [sec |-> a.sec + b.sec + (a.ns + b.ns) \div SecondNanos,
   ns  |-> (a.ns + b.ns) % SecondNanos]

\* the loop of ParseDuration over the tokens [0-9]*(\.[0-9]*)?[a-z]+
RECURSIVE parseTokens(_, _)
parseTokens(s, d) ==
  IF s = <<>> THEN [d |-> d, err |-> nil]
  ELSE IF ~(s[1] = "." \/ IsDigit(s[1]))
    THEN [d |-> ZeroDuration, err |-> <<"time: invalid duration">>]
  ELSE
    LET nInt   == DigitPrefixLen(s)
        v      == DecimalValue(SubSeq(s, 1, nInt))
        s1     == Drop(s, nInt)
        hasDot == s1 /= <<>> /\ s1[1] = "."
        s2     == IF hasDot THEN Tail(s1) ELSE s1
        nFrac  == IF hasDot THEN DigitPrefixLen(s2) ELSE 0
        f      == DecimalValue(SubSeq(s2, 1, nFrac))
        s3     == Drop(s2, nFrac)
        nUnit  == UnitPrefixLen(s3)
        u      == SubSeq(s3, 1, nUnit)
    IN  IF nInt = 0 /\ nFrac = 0
          THEN [d |-> ZeroDuration, err |-> <<"time: invalid duration">>]
        ELSE IF nUnit = 0
          THEN [d |-> ZeroDuration, err |-> <<"time: missing unit in duration">>]
        ELSE IF \A entry \in unitMap : entry.name /= u
          THEN [d |-> ZeroDuration, err |-> <<"time: unknown unit in duration">>]
        ELSE
          LET unit == CHOOSE entry \in unitMap : entry.name = u
          IN  IF v > unit.max
                THEN [d |-> ZeroDuration, err |-> <<"time: invalid duration">>]
                ELSE parseTokens(Drop(s3, nUnit),
                                 AddDuration(d, TokenValue(v, f, Pow10(nFrac), unit)))

\* duration.ParseDuration: [-+]?([0-9]*(\.[0-9]*)?[a-z]+)+, or "0"
ParseDuration(orig) ==
  LET signed == orig /= <<>> /\ orig[1] \in {"-", "+"}
      neg    == signed /\ orig[1] = "-"
      s      == IF signed THEN Tail(orig) ELSE orig
      r      == parseTokens(s, ZeroDuration)
  IN  IF s = <<"0">> THEN [d |-> ZeroDuration, err |-> nil]
      ELSE IF s = <<>> THEN [d |-> ZeroDuration, err |-> <<"time: invalid duration">>]
      ELSE IF r.err /= nil THEN r
      ELSE [d |-> IF neg THEN [sec |-> 0 - r.d.sec, ns |-> 0 - r.d.ns] ELSE r.d,
            err |-> nil]

\* int(duration.Seconds()): the float of seconds cut toward zero
IntSeconds(d) == d.sec

\* the ValidateDiagFunc of duration
validateDuration(in) ==
  LET r == ParseDuration(in)
  IN  IF r.err /= nil THEN Wrap(r.err, "Failed to parse duration") ELSE nil

\* variant: a unit is written also when its count is zero
appendUnit_alsoZero(ret, n, u) ==
  IF n >= 0 THEN ret \o Itoa(n) \o <<u>> ELSE ret

\* if n > 0 { ret = fmt.Sprintf("%s%d", ret, n) + u }
appendUnit(ret, n, u) ==
  IF n > 0 THEN ret \o Itoa(n) \o <<u>> ELSE ret

prettyPrintDuration(d) ==
  LET numWeeks        == GoDiv(d, WeekSeconds)
      durWithoutWeeks == d - numWeeks * WeekSeconds
      numDays         == GoDiv(durWithoutWeeks, DaySeconds)
      durWithoutDays  == durWithoutWeeks - numDays * DaySeconds
      numHours        == GoDiv(durWithoutDays, HourSeconds)
      durWithoutHours == durWithoutDays - numHours * HourSeconds
      numMinutes      == GoDiv(durWithoutHours, MinuteSeconds)
      numSeconds      == durWithoutHours - numMinutes * MinuteSeconds
  IN  appendUnit(appendUnit(appendUnit(appendUnit(appendUnit(<<>>,
        numWeeks, "w"), numDays, "d"), numHours, "h"), numMinutes, "m"), numSeconds, "s")

\* largest number of whole weeks in the explored event durations
MaxWeeks == 2

EventDurations ==
  { w * WeekSeconds + d * DaySeconds + h * HourSeconds + m * MinuteSeconds + s :
      w \in 0..MaxWeeks, d \in 0..6, h \in {0, 1, 23}, m \in {0, 1, 59}, s \in {0, 1, 59} }

\* longest free-form duration text drawn over DurationAlphabet
MaxDurLen == 3

DurationAlphabet == {"0", "6", "h", "m", "s", "w", "y", "-", "."}

FreeDurations == UNION {[1..n -> DurationAlphabet] : n \in 0..MaxDurLen}

\* the duration texts of the documentation
ExampleDurations ==
  { <<"2","4","h">>, <<"8","h">>, <<"9","h">>, <<"3","d">>,
    <<"1","h","3","0","m">>, <<"9","0","m">>, <<"1","w","1","d","1","h","1","m">>,
    <<"-","1","h">>, <<"1",".","5","h">>, <<"3","0","0","m","s">>,
    <<"1","h"," ","3","0","m">>, <<"1","H">>, <<"1","0">> }

InitDur ==
  /\ \/ /\ op = "event"
        /\ dur \in EventDurations
        /\ durationString = <<>>
     \/ /\ op = "shift"
        /\ dur = 0
        /\ durationString \in FreeDurations \cup ExampleDurations
  /\ parsedDuration = 0
  /\ weekday = <<>>
  /\ startTime = <<>>
  /\ hours = 0
  /\ minutes = 0
  /\ seconds = 0
  /\ days = 0
  /\ err = nil
  /\ NoEvent
  /\ NoKey
  /\ NoResource

weekVars == <<weekday, startTime, hours, minutes, seconds, days>>

\* advancedScheduleFieldDuration: prettyPrintDuration(event.Duration)
PrettyPrintDuration ==
  /\ op = "event"
  /\ durationString' = prettyPrintDuration(dur)
  /\ op' = "printed"
  /\ UNCHANGED <<weekVars, err, offsetVars, dur, parsedDuration, keyVars>>

\* the printed duration given to duration.ParseDuration by the next Update
ParsePrinted ==
  /\ op = "printed"
  /\ LET r == ParseDuration(durationString)
     IN  /\ parsedDuration' = IntSeconds(r.d)
         /\ err' = IF r.err /= nil THEN Wrap(r.err, "Failed to parse duration") ELSE nil
  /\ op' = "parsedBack"
  /\ UNCHANGED <<weekVars, offsetVars, dur, durationString, keyVars>>

ValidateDuration ==
  /\ op = "shift"
  /\ err' = validateDuration(durationString)
  /\ op' = "validateDuration"
  /\ UNCHANGED <<weekVars, offsetVars, durVars, keyVars>>

\* duration.ParseDuration(durationString) and Duration: int(duration.Seconds())
ShiftDuration ==
  /\ op = "shift"
  /\ LET r == ParseDuration(durationString)
     IN  /\ parsedDuration' = IntSeconds(r.d)
         /\ err' = IF r.err /= nil THEN Wrap(r.err, "Failed to parse duration") ELSE nil
  /\ op' = "shiftDuration"
  /\ UNCHANGED <<weekVars, offsetVars, dur, durationString, keyVars>>

NextDur ==
  \/ PrettyPrintDuration
  \/ ParsePrinted
  \/ ValidateDuration
  \/ ShiftDuration

SpecDur == InitDur /\ [][NextDur]_vars

(***************************************************************************)
(* The inverse direction: the Start of an event returned by the API is     *)
(* split into day, hour and minute, rendered as Read renders it, and the   *)
(* rendered fields are converted again as the next Update converts them.   *)
(***************************************************************************)
\* largest day index of the explored event starts (days 7 and up lie outside the week)
MaxDayIndex == 7

EventStarts ==
  { d * DaySeconds + h * HourSeconds + m * MinuteSeconds + s :
      d \in 0..MaxDayIndex, h \in 0..23, m \in 0..59, s \in {0, 59} }

InitOffset ==
  /\ eventStart \in EventStarts
  /\ weekday = <<>>
  /\ startTime = <<>>
  /\ op = "none"
  /\ hours = 0
  /\ minutes = 0
  /\ seconds = 0
  /\ days = 0
  /\ err = nil
  /\ NoDuration
  /\ NoKey
  /\ NoResource

\* dayOfWeekIndex, startHour, startMin := secondsToDayHourMinute(event.Start)
InverseOfEventStart ==
  /\ op = "none"
  /\ LET r == secondsToDayHourMinute(eventStart)
     IN  /\ days' = r.days
         /\ hours' = r.hours
         /\ minutes' = r.minutes
  /\ op' = "inverseOfEventStart"
  /\ UNCHANGED <<weekday, startTime, seconds, err, eventStart, durVars, keyVars>>

\* daysOfWeek[dayOfWeekIndex] and fmt.Sprintf("%02d:%02d", startHour, startMin);
\* an index outside the table is a run-time panic
RenderEventStart ==
  /\ op = "inverseOfEventStart"
  /\ IF days \in 0..(Len(daysOfWeek) - 1)
       THEN /\ weekday' = daysOfWeek[days + 1]
            /\ startTime' = SprintfHHMM(hours, minutes)
            /\ op' = "rendered"
       ELSE /\ op' = "panic: index out of range"
            /\ UNCHANGED <<weekday, startTime>>
  /\ UNCHANGED <<hours, minutes, seconds, days, err, eventStart, durVars, keyVars>>

\* startSeconds, err := weekdayStartTimeToSeconds(startDayOfWeek, startTime)
ConvertRendered ==
  /\ op = "rendered"
  /\ LET r == weekdayStartTimeToSeconds(weekday, startTime)
     IN  /\ seconds' = r.seconds
         /\ err' = r.err
  /\ op' = "convertedBack"
  /\ UNCHANGED <<weekday, startTime, hours, minutes, days, eventStart, durVars, keyVars>>

NextOffset ==
  \/ InverseOfEventStart
  \/ RenderEventStart
  \/ ConvertRendered

SpecOffset == InitOffset /\ [][NextOffset]_vars

(***************************************************************************)
(* Composite keys: team/roster of a roster, team/roster/role of a schedule. *)
(***************************************************************************)
\* fmt.Sprintf("%s/%s", team, roster)
getRosterID(t, r) == t \o <<"/">> \o r

\* variant: a key is refused only when both names are missing
rosterPartMissing_both(t, r) == t = <<>> /\ r = <<>>

\* team == "" || roster == ""
rosterPartMissing(t, r) == t = <<>> \/ r = <<>>

parseRosterID(rosterID) ==
  LET tr    == Split(rosterID, "/")
      split == IF Len(tr) = 1
                 THEN [team |-> tr[1], roster |-> <<>>,
                       err |-> <<"Only team name found in roster id">>]
               ELSE IF Len(tr) = 2
                 THEN [team |-> tr[1], roster |-> tr[2], err |-> nil]
               ELSE [team |-> <<>>, roster |-> <<>>, err |-> <<"Unparseable roster id">>]
  IN  IF split.err = nil /\ rosterPartMissing(split.team, split.roster)
        THEN [split EXCEPT !.err = <<"Roster ID did not specify both team and roster">>]
        ELSE split

\* variant: the role leads the key
getScheduleID_roleFirst(t, r, ro) == ro \o <<"/">> \o t \o <<"/">> \o r

\* fmt.Sprintf("%s/%s/%s", team, roster, role)
getScheduleID(t, r, ro) == t \o <<"/">> \o r \o <<"/">> \o ro

parseScheduleID(basicScheduleID) ==
  LET tr    == Split(basicScheduleID, "/")
      split == IF Len(tr) = 3
                 THEN [team |-> tr[1], roster |-> tr[2], role |-> tr[3], err |-> nil]
                 ELSE [team |-> <<>>, roster |-> <<>>, role |-> <<>>,
                       err |-> <<"Unparseable roster schedule id (should be team/roster/role)">>]
  IN  IF split.err = nil /\ (split.team = <<>> \/ split.roster = <<>> \/ split.role = <<>>)
        THEN [split EXCEPT !.err = <<"Roster ID did not specify team, roster, and role">>]
        ELSE split

\* longest team, roster or role name explored
MaxNameLen == 2

NameAlphabet == {"a", "b", "/"}

Names == UNION {[1..n -> NameAlphabet] : n \in 0..MaxNameLen}

\* longest free-form key explored
MaxKeyLen == 5

FreeKeys == UNION {[1..n -> NameAlphabet] : n \in 0..MaxKeyLen}

InitID ==
  /\ \/ /\ op = "names"
        /\ team \in Names
        /\ roster \in Names
        /\ role \in Names
        /\ id = <<>>
     \/ /\ op = "key"
        /\ team = <<>>
        /\ roster = <<>>
        /\ role = <<>>
        /\ id \in FreeKeys
  /\ parsed = <<>>
  /\ err = nil
  /\ weekday = <<>>
  /\ startTime = <<>>
  /\ hours = 0
  /\ minutes = 0
  /\ seconds = 0
  /\ days = 0
  /\ NoEvent
  /\ NoDuration
  /\ NoResource

GetRosterID ==
  /\ op = "names"
  /\ id' = getRosterID(team, roster)
  /\ op' = "getRosterID"
  /\ UNCHANGED <<weekVars, err, offsetVars, durVars, team, roster, role, parsed, crudVars>>

GetScheduleID ==
  /\ op = "names"
  /\ id' = getScheduleID(team, roster, role)
  /\ op' = "getScheduleID"
  /\ UNCHANGED <<weekVars, err, offsetVars, durVars, team, roster, role, parsed, crudVars>>

ParseRosterID ==
  /\ op \in {"getRosterID", "key"}
  /\ LET r == parseRosterID(id)
     IN  /\ parsed' = <<r.team, r.roster>>
         /\ err' = r.err
  /\ op' = "parseRosterID"
  /\ UNCHANGED <<weekVars, offsetVars, durVars, id, team, roster, role, crudVars>>

ParseScheduleID ==
  /\ op \in {"getScheduleID", "key"}
  /\ LET r == parseScheduleID(id)
     IN  /\ parsed' = <<r.team, r.roster, r.role>>
         /\ err' = r.err
  /\ op' = "parseScheduleID"
  /\ UNCHANGED <<weekVars, offsetVars, durVars, id, team, roster, role, crudVars>>

NextID ==
  \/ GetRosterID
  \/ GetScheduleID
  \/ ParseRosterID
  \/ ParseScheduleID

SpecID == InitID /\ [][NextID]_vars

(***************************************************************************)
(* The resource handlers.  The API client (oncall-client-go) is the         *)
(* environment: a request either succeeds with its effect on what the API   *)
(* holds, or fails with an error message.  A diag.Diagnostics with an error *)
(* is the chain of its messages, an empty one is nil.                       *)
(***************************************************************************)
FortnightSeconds == 1209600

basicScheduleRotationWeekly == "weekly"
basicScheduleRotationBiWeekly == "bi-weekly"

\* error texts of the API: a key that is taken, a schedule that is not
\* there, and any other failure
Conflict == "Failed to create: (422)"
NotFound == "Did not find schedule"
ServerError == "Request failed: (500)"

\* strings.Contains(err.Error(), "(422)")
ContainsConflict(e) == \E k \in 1..Len(e) : e[k] = Conflict

\* strings.Contains(err.Error(), "Did not find schedule")
ContainsNotFound(e) == \E k \in 1..Len(e) : e[k] = NotFound

\* the run-time panic of an index outside a slice
IndexOutOfRange == <<"panic: runtime error: index out of range">>

\* diag.FromErr(errors.Wrapf(err, fmtString, values...)), nil for no error
diagFromErrf(e, msg) == IF e = nil THEN nil ELSE Wrap(e, msg)

NoSchedule ==
  [AdvancedMode |-> 0, Role |-> <<>>, AutoPopulateThreshold |-> 0,
   Scheduler |-> "", Team |-> <<>>, Roster |-> <<>>, Events |-> <<>>]

\* the schedules the API holds under a key
Stored(srv, t, r, ro) ==
  {sc \in srv.schedules : sc.Team = t /\ sc.Roster = r /\ sc.Role = ro}

AddRosterSchedule(srv, t, r, sched, outcome) ==
  IF Stored(srv, t, r, sched.Role) /= {} THEN [server |-> srv, err |-> <<Conflict>>]
  ELSE IF outcome /= "ok" THEN [server |-> srv, err |-> <<outcome>>]
  ELSE [server |-> [srv EXCEPT !.schedules = @ \cup {[sched EXCEPT !.Team = t, !.Roster = r]}],
        err |-> nil]

UpdateRosterSchedule(srv, t, r, ro, sched, outcome) ==
  IF outcome /= "ok" THEN [server |-> srv, err |-> <<outcome>>]
  ELSE IF Stored(srv, t, r, ro) = {} THEN [server |-> srv, err |-> <<NotFound>>]
  ELSE [server |-> [srv EXCEPT !.schedules =
                      (@ \ Stored(srv, t, r, ro)) \cup {[sched EXCEPT !.Team = t, !.Roster = r]}],
        err |-> nil]

PopulateRosterSchedule(outcome) == IF outcome /= "ok" THEN <<outcome>> ELSE nil

GetRosterSchedule(srv, t, r, ro, outcome) ==
  IF outcome /= "ok" THEN [schedule |-> NoSchedule, err |-> <<outcome>>]
  ELSE IF Stored(srv, t, r, ro) = {} THEN [schedule |-> NoSchedule, err |-> <<NotFound>>]
  ELSE [schedule |-> CHOOSE sc \in Stored(srv, t, r, ro) : TRUE, err |-> nil]

\* a request as the handler sent it
Request(name, key) == [name |-> name, key |-> key]

\* the oncall.Schedule both conversions start from
newSchedule(mode, r) ==
  [AdvancedMode |-> mode, Role |-> r.role,
   AutoPopulateThreshold |-> r.auto_populate_days,
   Scheduler |-> r.scheduling_algorithim,
   Team |-> <<>>, Roster |-> <<>>, Events |-> <<>>]

\* variant: every rotation lasts a week
rotationSeconds_weekOnly(rotateFrequency) == WeekSeconds

\* dur := duration.Week, or duration.Fortnight for a bi-weekly rotation
rotationSeconds(rotateFrequency) ==
  IF rotateFrequency = basicScheduleRotationBiWeekly THEN FortnightSeconds ELSE WeekSeconds

\* basicScheduleFromResource once the roster ID and the start are converted
basicScheduleOf(r, key, start) ==
  IF key.err /= nil
    THEN [sched |-> newSchedule(0, r), err |-> Wrap(key.err, "Invalid roster ID")]
  ELSE IF start.err /= nil
    THEN [sched |-> [newSchedule(0, r) EXCEPT !.Team = key.team, !.Roster = key.roster],
          err |-> Wrap(start.err, "Parsing start weekday and time")]
  ELSE [sched |-> [newSchedule(0, r) EXCEPT
                     !.Team = key.team, !.Roster = key.roster,
                     !.Events = <<[Start |-> start.seconds,
                                   Duration |-> rotationSeconds(r.rotate_frequency)]>>],
        err |-> nil]

basicScheduleFromResource(r) ==
  basicScheduleOf(r, parseRosterID(r.roster_id),
                  weekdayStartTimeToSeconds(r.start_day_of_week, r.start_time))

\* the loop of advancedScheduleFromResource over the shifts, and its body
\* once the start and the duration of the shift are converted
RECURSIVE shiftEvents(_, _)
RECURSIVE shiftEvent(_, _, _, _)
shiftEvent(shifts, events, start, length) ==
  IF start.err /= nil
    THEN [events |-> events, err |-> Wrap(start.err, "Parsing start weekday and time")]
  ELSE IF length.err /= nil
    THEN [events |-> events, err |-> Wrap(length.err, "Failed to parse duration")]
  ELSE shiftEvents(Tail(shifts),
         Append(events, [Start |-> start.seconds, Duration |-> IntSeconds(length.d)]))

shiftEvents(shifts, events) ==
  IF shifts = <<>> THEN [events |-> events, err |-> nil]
  ELSE shiftEvent(shifts, events,
                  weekdayStartTimeToSeconds(Head(shifts).start_day_of_week,
                                            Head(shifts).start_time),
                  ParseDuration(Head(shifts).duration))

\* advancedScheduleFromResource once the roster ID and the shifts are converted
advancedScheduleOf(r, key, evs) ==
  IF key.err /= nil
    THEN [sched |-> newSchedule(1, r), err |-> Wrap(key.err, "Invalid roster ID")]
    ELSE [sched |-> [newSchedule(1, r) EXCEPT
                       !.Team = key.team, !.Roster = key.roster, !.Events = evs.events],
          err |-> evs.err]

advancedScheduleFromResource(r) ==
  advancedScheduleOf(r, parseRosterID(r.roster_id), shiftEvents(r.shift, <<>>))

\* daysOfWeek[dayOfWeekIndex] is inside the slice
InDaysOfWeek(dayOfWeekIndex) == dayOfWeekIndex \in 0..(Len(daysOfWeek) - 1)

\* the role, roster, threshold and scheduler that both Read handlers set
withScheduleFrame(r, key, schedule) ==
  [r EXCEPT !.role = schedule.Role,
            !.roster_id = getRosterID(key.team, key.roster),
            !.auto_populate_days = schedule.AutoPopulateThreshold,
            !.scheduling_algorithim = schedule.Scheduler]

GetRequest(key) == <<Request("GetRosterSchedule", <<key.team, key.roster, key.role>>)>>

\* d.Set of the rotation, the weekday and the start time of the one event
basicReadEvent(framed, sent, event, dhm) ==
  IF ~InDaysOfWeek(dhm.days)
    THEN [data |-> [framed EXCEPT !.rotate_frequency =
                      IF event.Duration = FortnightSeconds
                        THEN basicScheduleRotationBiWeekly ELSE basicScheduleRotationWeekly],
          calls |-> sent, err |-> IndexOutOfRange]
    ELSE [data |-> [framed EXCEPT
                      !.rotate_frequency =
                        IF event.Duration = FortnightSeconds
                          THEN basicScheduleRotationBiWeekly ELSE basicScheduleRotationWeekly,
                      !.start_day_of_week = daysOfWeek[dhm.days + 1],
                      !.start_time = SprintfHHMM(dhm.hours, dhm.minutes)],
          calls |-> sent, err |-> nil]

\* resourceBasicScheduleRead once GetRosterSchedule has answered
basicReadGot(r, key, got) ==
  IF got.err /= nil
    THEN [data |-> r, calls |-> GetRequest(key),
          err |-> diagFromErrf(got.err, "Getting roster schedule")]
  ELSE IF Len(got.schedule.Events) /= 1
    THEN [data |-> withScheduleFrame(r, key, got.schedule), calls |-> GetRequest(key),
          err |-> <<"The schedule you are reading is not a basic schedule as it does not have exactly one event">>]
  ELSE basicReadEvent(withScheduleFrame(r, key, got.schedule), GetRequest(key),
                      got.schedule.Events[1],
                      secondsToDayHourMinute(got.schedule.Events[1].Start))

\* resourceBasicScheduleRead once d.Id() is parsed
basicReadParsed(r, key, srv, get) ==
  IF key.err /= nil
    THEN [data |-> r, calls |-> <<>>,
          err |-> diagFromErrf(key.err, "Parsing roster ID, this is an internal error")]
    ELSE basicReadGot(r, key, GetRosterSchedule(srv, key.team, key.roster, key.role, get))

resourceBasicScheduleRead(r, rid, srv, get) ==
  basicReadParsed(r, parseScheduleID(rid), srv, get)

\* the loop of resourceAdvancedScheduleRead over the events, and its body
\* once the start of the event is converted
RECURSIVE eventShifts(_, _)
RECURSIVE eventShift(_, _, _)
eventShift(events, shifts, dhm) ==
  IF ~InDaysOfWeek(dhm.days)
    THEN [shifts |-> shifts, err |-> IndexOutOfRange]
    ELSE eventShifts(Tail(events),
           Append(shifts, [start_day_of_week |-> daysOfWeek[dhm.days + 1],
                           start_time |-> SprintfHHMM(dhm.hours, dhm.minutes),
                           duration |-> prettyPrintDuration(Head(events).Duration)]))

eventShifts(events, shifts) ==
  IF events = <<>> THEN [shifts |-> shifts, err |-> nil]
  ELSE eventShift(events, shifts, secondsToDayHourMinute(Head(events).Start))

\* d.Set of the frame and of the shifts
advancedReadShifts(framed, sent, shifts) ==
  IF shifts.err /= nil
    THEN [data |-> framed, calls |-> sent, err |-> shifts.err]
    ELSE [data |-> [framed EXCEPT !.shift = shifts.shifts], calls |-> sent, err |-> nil]

\* the schedule Read goes on with when the API has none
emptySchedule(scheduleName) ==
  [NoSchedule EXCEPT !.Role = scheduleName, !.Scheduler = "default"]

\* resourceAdvancedScheduleRead once GetRosterSchedule has answered
advancedReadGot(r, key, got) ==
  IF got.err /= nil /\ ~ContainsNotFound(got.err)
    THEN [data |-> r, calls |-> GetRequest(key),
          err |-> diagFromErrf(got.err, "Getting roster schedule")]
  ELSE IF got.err /= nil
    THEN advancedReadShifts(withScheduleFrame(r, key, emptySchedule(key.role)),
                            GetRequest(key), eventShifts(<<>>, <<>>))
  ELSE advancedReadShifts(withScheduleFrame(r, key, got.schedule),
                          GetRequest(key), eventShifts(got.schedule.Events, <<>>))

\* resourceAdvancedScheduleRead once d.Id() is parsed
advancedReadParsed(r, key, srv, get) ==
  IF key.err /= nil
    THEN [data |-> r, calls |-> <<>>,
          err |-> diagFromErrf(key.err, "Parsing roster ID, this is an internal error")]
    ELSE advancedReadGot(r, key, GetRosterSchedule(srv, key.team, key.roster, key.role, get))

resourceAdvancedScheduleRead(r, rid, srv, get) ==
  advancedReadParsed(r, parseScheduleID(rid), srv, get)

\* variant: the schedule built so far is used although the conversion failed
scheduleFromResource_partial(r) ==
  [sched |-> IF r.kind = "basic"
               THEN basicScheduleFromResource(r).sched
               ELSE advancedScheduleFromResource(r).sched,
   err |-> nil]

scheduleFromResource(r) ==
  IF r.kind = "basic" THEN basicScheduleFromResource(r) ELSE advancedScheduleFromResource(r)

scheduleRead(r, rid, srv, get) ==
  IF r.kind = "basic"
    THEN resourceBasicScheduleRead(r, rid, srv, get)
    ELSE resourceAdvancedScheduleRead(r, rid, srv, get)

\* Create after d.SetId(resourceID) and the Read whose diagnostics it drops
createRead(resourceID, sent, srv, read) ==
  [data |-> read.data, id |-> resourceID, calls |-> sent \o read.calls, server |-> srv,
   err |-> IF read.err = IndexOutOfRange THEN IndexOutOfRange ELSE nil]

\* Create once AddRosterSchedule has answered
createAdded(r, rid, srv, get, resourceID, sent, added) ==
  IF added.err /= nil
    THEN [data |-> r, id |-> rid, calls |-> sent, server |-> srv,
          err |-> IF ContainsConflict(added.err)
                    THEN diagFromErrf(added.err, "Roster schedule already exists, please import using id")
                    ELSE diagFromErrf(added.err, "Creating oncall roster")]
    ELSE createRead(resourceID, sent, added.server,
                    scheduleRead(r, resourceID, added.server, get))

\* Create once the roster ID is parsed and the resource converted
createConverted(r, rid, srv, add, get, key, conv) ==
  IF key.err /= nil
    THEN [data |-> r, id |-> rid, calls |-> <<>>, server |-> srv,
          err |-> diagFromErrf(key.err, "Parsing roster ID, this is an internal error")]
  ELSE IF conv.err /= nil
    THEN [data |-> r, id |-> rid, calls |-> <<>>, server |-> srv,
          err |-> diagFromErrf(conv.err, "Failed to parse resource into oncall schedule")]
  ELSE createAdded(r, rid, srv, get,
                   getScheduleID(key.team, key.roster, r.role),
                   <<Request("AddRosterSchedule", <<key.team, key.roster, conv.sched.Role>>)>>,
                   AddRosterSchedule(srv, key.team, key.roster, conv.sched, add))

\* resourceBasicScheduleCreate and resourceAdvancedScheduleCreate
scheduleCreate(r, rid, srv, add, get) ==
  createConverted(r, rid, srv, add, get, parseRosterID(r.roster_id), scheduleFromResource(r))

\* Update returns what Read returns
updateRead(rid, sent, srv, read) ==
  [data |-> read.data, id |-> rid, calls |-> sent \o read.calls, server |-> srv,
   err |-> read.err]

\* variant: the answer of UpdateRosterSchedule is taken for a success
updateErr_dropped(updated) == nil

\* err = c.UpdateRosterSchedule(...)
updateErr(updated) == updated.err

\* Update once UpdateRosterSchedule has answered
updateSent(r, rid, srv, populate, get, target, updated) ==
  IF updateErr(updated) /= nil
    THEN [data |-> r, id |-> rid, calls |-> <<Request("UpdateRosterSchedule", target)>>,
          server |-> srv,
          err |-> diagFromErrf(updated.err, "Updating oncall roster schedule")]
  ELSE IF PopulateRosterSchedule(populate) /= nil
    THEN [data |-> r, id |-> rid,
          calls |-> <<Request("UpdateRosterSchedule", target),
                      Request("PopulateRosterSchedule", target)>>,
          server |-> updated.server,
          err |-> diagFromErrf(PopulateRosterSchedule(populate), "Populating oncall roster schedule")]
  ELSE updateRead(rid, <<Request("UpdateRosterSchedule", target),
                         Request("PopulateRosterSchedule", target)>>,
                  updated.server, scheduleRead(r, rid, updated.server, get))

\* Update once d.Id() is parsed and the resource converted
updateConverted(r, rid, srv, update, populate, get, key, conv) ==
  IF key.err /= nil
    THEN [data |-> r, id |-> rid, calls |-> <<>>, server |-> srv,
          err |-> diagFromErrf(key.err, "Parsing roster schedule ID, this is an internal error")]
  ELSE IF conv.err /= nil
    THEN [data |-> r, id |-> rid, calls |-> <<>>, server |-> srv,
          err |-> diagFromErrf(conv.err, "Failed to parse resource into oncall schedule")]
  ELSE updateSent(r, rid, srv, populate, get, <<key.team, key.roster, conv.sched.Role>>,
                  UpdateRosterSchedule(srv, key.team, key.roster, conv.sched.Role,
                                       conv.sched, update))

\* resourceBasicScheduleUpdate and resourceAdvancedScheduleUpdate
scheduleUpdate(r, rid, srv, update, populate, get) ==
  updateConverted(r, rid, srv, update, populate, get, parseScheduleID(rid),
                  scheduleFromResource(r))

RemoveRosterSchedule(srv, t, r, ro, outcome) ==
  IF outcome /= "ok" THEN [server |-> srv, err |-> <<outcome>>]
  ELSE IF Stored(srv, t, r, ro) = {} THEN [server |-> srv, err |-> <<NotFound>>]
  ELSE [server |-> [srv EXCEPT !.schedules = @ \ Stored(srv, t, r, ro)], err |-> nil]

\* the test of the error of RemoveRosterSchedule: resourceBasicScheduleDelete
\* returns on every error, resourceAdvancedScheduleDelete on every error but
\* "Did not find schedule"
removeFailed(r, e) ==
  IF r.kind = "advanced" THEN e /= nil /\ ~ContainsNotFound(e) ELSE e /= nil

\* Delete once RemoveRosterSchedule has answered
deleteRemoved(r, rid, srv, target, removed) ==
  IF removeFailed(r, removed.err)
    THEN [data |-> r, id |-> rid, calls |-> <<Request("RemoveRosterSchedule", target)>>,
          server |-> srv, err |-> diagFromErrf(removed.err, "Removing roster")]
    ELSE [data |-> r, id |-> <<>>, calls |-> <<Request("RemoveRosterSchedule", target)>>,
          server |-> removed.server, err |-> nil]

\* Delete once d.Id() is parsed
deleteParsed(r, rid, srv, remove, key) ==
  IF key.err /= nil
    THEN [data |-> r, id |-> rid, calls |-> <<>>, server |-> srv,
          err |-> diagFromErrf(key.err, "Parsing roster schedule ID, this is an internal error")]
    ELSE deleteRemoved(r, rid, srv, <<key.team, key.roster, key.role>>,
                       RemoveRosterSchedule(srv, key.team, key.roster, key.role, remove))

\* resourceBasicScheduleDelete and resourceAdvancedScheduleDelete
scheduleDelete(r, rid, srv, remove) == deleteParsed(r, rid, srv, remove, parseScheduleID(rid))

\* the rosters the API holds under a key
StoredRosters(srv, t, n) == {ro \in srv.rosters : ro.Team = t /\ ro.Name = n}

CreateRoster(srv, t, n, outcome) ==
  IF StoredRosters(srv, t, n) /= {} THEN [server |-> srv, err |-> <<Conflict>>]
  ELSE IF outcome /= "ok" THEN [server |-> srv, err |-> <<outcome>>]
  ELSE [server |-> [srv EXCEPT !.rosters = @ \cup {[Team |-> t, Name |-> n, Users |-> {}]}],
        err |-> nil]

SetRosterUsers(srv, t, n, members, outcome) ==
  IF outcome /= "ok" THEN [server |-> srv, err |-> <<outcome>>]
  ELSE [server |-> [srv EXCEPT !.rosters =
                      (@ \ StoredRosters(srv, t, n))
                        \cup {[ro EXCEPT !.Users = members] : ro \in StoredRosters(srv, t, n)}],
        err |-> nil]

GetRoster(srv, t, n, outcome) ==
  IF outcome /= "ok" THEN [roster |-> [Team |-> t, Name |-> <<>>, Users |-> {}], err |-> <<outcome>>]
  ELSE IF StoredRosters(srv, t, n) = {}
    THEN [roster |-> [Team |-> t, Name |-> <<>>, Users |-> {}], err |-> <<"Did not find roster">>]
  ELSE [roster |-> CHOOSE ro \in StoredRosters(srv, t, n) : TRUE, err |-> nil]

\* resourceRosterRead once GetRoster has answered
rosterReadGot(r, key, got) ==
  IF got.err /= nil
    THEN [data |-> r, calls |-> <<Request("GetRoster", <<key.team, key.roster>>)>>,
          err |-> diagFromErrf(got.err, "Getting roster")]
    ELSE [data |-> [r EXCEPT !.name = got.roster.Name, !.members = got.roster.Users],
          calls |-> <<Request("GetRoster", <<key.team, key.roster>>)>>, err |-> nil]

\* resourceRosterRead once d.Id() is parsed
rosterReadParsed(r, key, srv, get) ==
  IF key.err /= nil
    THEN [data |-> r, calls |-> <<>>,
          err |-> diagFromErrf(key.err, "Parsing roster ID, this is an internal error")]
    ELSE rosterReadGot(r, key, GetRoster(srv, key.team, key.roster, get))

resourceRosterRead(r, rid, srv, get) == rosterReadParsed(r, parseRosterID(rid), srv, get)

\* variant: a blank name stays blank
defaultRosterName_keepBlank(teamName, rosterName) == rosterName

\* if rosterName == "" { rosterName = teamName }
defaultRosterName(teamName, rosterName) ==
  IF rosterName = <<>> THEN teamName ELSE rosterName

\* resourceRosterCreate after the Read whose diagnostics it drops
rosterCreateRead(resourceID, sent, srv, read) ==
  [data |-> read.data, id |-> resourceID, calls |-> sent \o read.calls, server |-> srv,
   err |-> nil]

\* resourceRosterCreate once SetRosterUsers has answered
rosterCreateFilled(r, resourceID, srv, get, sent, filled) ==
  IF filled.err /= nil
    THEN [data |-> r, id |-> resourceID, calls |-> sent, server |-> srv,
          err |-> diagFromErrf(filled.err, "Setting roster members")]
    ELSE rosterCreateRead(resourceID, sent, filled.server,
                          resourceRosterRead(r, resourceID, filled.server, get))

\* resourceRosterCreate once CreateRoster has answered
rosterCreated(r, rid, srv, setUsers, get, teamName, rosterName, created) ==
  IF created.err /= nil
    THEN [data |-> r, id |-> rid,
          calls |-> <<Request("CreateRoster", <<teamName, rosterName>>)>>, server |-> srv,
          err |-> IF ContainsConflict(created.err)
                    THEN diagFromErrf(created.err, "Roster already exists, please import using id")
                    ELSE diagFromErrf(created.err, "Creating oncall roster")]
    ELSE rosterCreateFilled(r, getRosterID(teamName, rosterName), created.server, get,
           <<Request("CreateRoster", <<teamName, rosterName>>),
             Request("SetRosterUsers", <<teamName, rosterName>>)>>,
           SetRosterUsers(created.server, teamName, rosterName, r.members, setUsers))

\* resourceRosterCreate once the roster name is settled
rosterCreateNamed(r, rid, srv, create, setUsers, get, teamName, rosterName) ==
  IF teamName = <<>>
    THEN [data |-> r, id |-> rid, calls |-> <<>>, server |-> srv,
          err |-> <<"You must specify a non-empty team">>]
    ELSE rosterCreated(r, rid, srv, setUsers, get, teamName, rosterName,
                       CreateRoster(srv, teamName, rosterName, create))

resourceRosterCreate(r, rid, srv, create, setUsers, get) ==
  rosterCreateNamed(r, rid, srv, create, setUsers, get, r.team,
                    defaultRosterName(r.team, r.name))

\* the teams the API holds under a name
StoredTeams(srv, n) == {tm \in srv.teams : tm.Name = n}

CreateTeam(srv, teamConfig, outcome) ==
  IF StoredTeams(srv, teamConfig.Name) /= {} THEN [server |-> srv, err |-> <<Conflict>>]
  ELSE IF outcome /= "ok" THEN [server |-> srv, err |-> <<outcome>>]
  ELSE [server |-> [srv EXCEPT !.teams = @ \cup {[Name |-> teamConfig.Name,
                       SchedulingTimezone |-> teamConfig.SchedulingTimezone,
                       Email |-> teamConfig.Email, Admins |-> {}]}],
        err |-> nil]

UpdateTeam(srv, n, teamConfig, outcome) ==
  IF outcome /= "ok" THEN [server |-> srv, err |-> <<outcome>>]
  ELSE IF StoredTeams(srv, n) = {} THEN [server |-> srv, err |-> <<"Did not find team">>]
  ELSE [server |-> [srv EXCEPT !.teams =
                      (@ \ StoredTeams(srv, n))
                        \cup {[tm EXCEPT !.Name = teamConfig.Name,
                                         !.SchedulingTimezone = teamConfig.SchedulingTimezone,
                                         !.Email = teamConfig.Email] : tm \in StoredTeams(srv, n)}],
        err |-> nil]

SetTeamAdmins(srv, n, admins, outcome) ==
  IF outcome /= "ok" THEN [server |-> srv, err |-> <<outcome>>]
  ELSE [server |-> [srv EXCEPT !.teams =
                      (@ \ StoredTeams(srv, n))
                        \cup {[tm EXCEPT !.Admins = admins] : tm \in StoredTeams(srv, n)}],
        err |-> nil]

NoTeam == [Name |-> <<>>, SchedulingTimezone |-> <<>>, Email |-> <<>>, Admins |-> {}]

GetTeam(srv, n, outcome) ==
  IF outcome /= "ok" THEN [team |-> NoTeam, err |-> <<outcome>>]
  ELSE IF StoredTeams(srv, n) = {} THEN [team |-> NoTeam, err |-> <<"Did not find team">>]
  ELSE [team |-> CHOOSE tm \in StoredTeams(srv, n) : TRUE, err |-> nil]

\* variant: an empty field is let through
emptyFieldDiag_none(value, fieldName) == <<>>

\* if value == "" { diags = append(diags, "You must specify a non-empty " + fieldName) }
emptyFieldDiag(value, fieldName) ==
  IF value = <<>> THEN <<"You must specify a non-empty " \o fieldName>> ELSE <<>>

\* the diagnostics here are the list of the summaries, one per empty field
\* (slack_channel and iris_plan are copied as email is and are left out)
resourceTeamAsTeamConfig(r) ==
  [teamConfig |-> [Name |-> r.name, SchedulingTimezone |-> r.scheduling_timezone,
                   Email |-> r.email],
   diags |-> emptyFieldDiag(r.name, "name")
               \o emptyFieldDiag(r.scheduling_timezone, "scheduling_timezone")]

\* resourceTeamRead once GetTeam has answered
teamReadGot(r, rid, got) ==
  IF got.err /= nil
    THEN [data |-> r, calls |-> <<Request("GetTeam", <<rid>>)>>,
          err |-> Wrap(got.err, "Fetching team")]
    ELSE [data |-> [r EXCEPT !.name = got.team.Name, !.email = got.team.Email,
                             !.scheduling_timezone = got.team.SchedulingTimezone,
                             !.admins = got.team.Admins],
          calls |-> <<Request("GetTeam", <<rid>>)>>, err |-> nil]

resourceTeamRead(r, rid, srv, get) == teamReadGot(r, rid, GetTeam(srv, rid, get))

\* resourceTeamCreate after the Read whose diagnostics it drops
teamCreateRead(resourceID, sent, srv, read) ==
  [data |-> read.data, id |-> resourceID, calls |-> sent \o read.calls, server |-> srv,
   err |-> nil]

\* resourceTeamCreate once SetTeamAdmins has answered
teamCreateAdmins(r, resourceID, srv, get, sent, filled) ==
  IF filled.err /= nil
    THEN [data |-> r, id |-> resourceID, calls |-> sent, server |-> srv,
          err |-> diagFromErrf(filled.err, "Setting team admins")]
    ELSE teamCreateRead(resourceID, sent, filled.server,
                        resourceTeamRead(r, resourceID, filled.server, get))

\* resourceTeamCreate once CreateTeam has answered
teamCreated(r, rid, srv, setAdmins, get, teamConfig, created) ==
  IF created.err /= nil
    THEN [data |-> r, id |-> rid, calls |-> <<Request("CreateTeam", <<teamConfig.Name>>)>>,
          server |-> srv,
          err |-> IF ContainsConflict(created.err)
                    THEN diagFromErrf(created.err, "Team already exists, please import using id")
                    ELSE diagFromErrf(created.err, "Creating oncall team")]
    ELSE teamCreateAdmins(r, teamConfig.Name, created.server, get,
           <<Request("CreateTeam", <<teamConfig.Name>>),
             Request("SetTeamAdmins", <<teamConfig.Name>>)>>,
           SetTeamAdmins(created.server, teamConfig.Name, r.admins, setAdmins))

\* resourceTeamCreate once the team configuration is built
teamCreateConfigured(r, rid, srv, create, setAdmins, get, config) ==
  IF Len(config.diags) > 0
    THEN [data |-> r, id |-> rid, calls |-> <<>>, server |-> srv, err |-> config.diags]
    ELSE teamCreated(r, rid, srv, setAdmins, get, config.teamConfig,
                     CreateTeam(srv, config.teamConfig, create))

resourceTeamCreate(r, rid, srv, create, setAdmins, get) ==
  teamCreateConfigured(r, rid, srv, create, setAdmins, get, resourceTeamAsTeamConfig(r))

\* resourceTeamUpdate returns what Read returns
teamUpdateRead(resourceID, sent, srv, read) ==
  [data |-> read.data, id |-> resourceID, calls |-> sent \o read.calls, server |-> srv,
   err |-> read.err]

\* resourceTeamUpdate once UpdateTeam has answered
teamUpdated(r, rid, srv, get, teamConfig, updated) ==
  IF updated.err /= nil
    THEN [data |-> r, id |-> rid, calls |-> <<Request("UpdateTeam", <<rid>>)>>,
          server |-> srv, err |-> Wrap(updated.err, "Updating oncall team")]
    ELSE teamUpdateRead(teamConfig.Name, <<Request("UpdateTeam", <<rid>>)>>, updated.server,
                        resourceTeamRead(r, teamConfig.Name, updated.server, get))

\* resourceTeamUpdate once the team configuration is built
teamUpdateConfigured(r, rid, srv, update, get, config) ==
  IF Len(config.diags) > 0
    THEN [data |-> r, id |-> rid, calls |-> <<>>, server |-> srv, err |-> config.diags]
    ELSE teamUpdated(r, rid, srv, get, config.teamConfig,
                     UpdateTeam(srv, rid, config.teamConfig, update))

resourceTeamUpdate(r, rid, srv, update, get) ==
  teamUpdateConfigured(r, rid, srv, update, get, resourceTeamAsTeamConfig(r))

\* the outcomes of a request that the environment chooses between
Outcomes == {"ok", ServerError}

Primary == <<"p","r","i","m","a","r","y">>

\* the fields of a resource; a field a resource kind does not have is blank
Resource(kind, rosterID, day, time, rotation, shifts, teamName, rosterName, members) ==
  [kind |-> kind, role |-> Primary, roster_id |-> rosterID,
   auto_populate_days |-> 21, scheduling_algorithim |-> "default",
   start_day_of_week |-> day, start_time |-> time, rotate_frequency |-> rotation,
   shift |-> shifts, team |-> teamName, name |-> rosterName, members |-> members,
   scheduling_timezone |-> <<>>, email |-> <<>>, admins |-> {}]

RosterIDs == { <<"t","/","r">>, <<"t">> }

BasicConfigs ==
  { Resource("basic", rid, day, time, rotation, <<>>, <<>>, <<>>, {}) :
      rid \in RosterIDs,
      day \in { <<"M","o","n","d","a","y">>, <<"s","u","n","d","a","y">>,
                <<"O","l","i","v","e","r","d","a","y">> },
      time \in { <<"1","3",":","1","5">>, <<"9",":","5">>, <<"2","3",":","6","0">> },
      rotation \in {basicScheduleRotationWeekly, basicScheduleRotationBiWeekly} }

Shift(day, time, length) ==
  [start_day_of_week |-> day, start_time |-> time, duration |-> length]

ConfigShifts ==
  { Shift(<<"M","o","n","d","a","y">>, <<"0","8",":","0","0">>, <<"8","h">>),
    Shift(<<"s","a","t","u","r","d","a","y">>, <<"1","7",":","3","0">>, <<"1","d","1","2","h">>),
    Shift(<<"O","l","i","v","e","r","d","a","y">>, <<"0","8",":","0","0">>, <<"8","h">>),
    Shift(<<"M","o","n","d","a","y">>, <<"2","3",":","6","0">>, <<"8","h">>),
    Shift(<<"M","o","n","d","a","y">>, <<"0","8",":","0","0">>, <<"8"," ","h","o","u","r","s">>),
    Shift(<<"F","r","i","d","a","y">>, <<"9",":","0","0">>, <<"0","s">>) }

\* most shifts in a configured advanced schedule
MaxShifts == 2

AdvancedConfigs ==
  { Resource("advanced", rid, <<>>, <<>>, "", shifts, <<>>, <<>>, {}) :
      rid \in RosterIDs,
      shifts \in UNION {[1..n -> ConfigShifts] : n \in 0..MaxShifts} }

RosterConfigs ==
  { Resource("roster", <<>>, <<>>, <<>>, "", <<>>, teamName, rosterName, members) :
      teamName \in { <<>>, <<"t">> },
      rosterName \in { <<>>, <<"r">> },
      members \in { {}, {"alice"} } }

\* events of a schedule the API may hold: a weekly and a fortnightly
\* rotation, and a shift in the second week of a rotation
StoredEvents ==
  { [Start |-> 0, Duration |-> WeekSeconds],
    [Start |-> DaySeconds + 13 * HourSeconds + 15 * MinuteSeconds, Duration |-> FortnightSeconds],
    [Start |-> WeekSeconds + DaySeconds, Duration |-> DaySeconds] }

\* most events in a schedule the API holds
MaxEvents == 2

StoredSchedules ==
  { [AdvancedMode |-> IF Len(events) = 1 THEN 0 ELSE 1, Role |-> Primary,
     AutoPopulateThreshold |-> 21, Scheduler |-> "round-robin",
     Team |-> <<"t">>, Roster |-> <<"r">>, Events |-> events] :
      events \in UNION {[1..n -> StoredEvents] : n \in 0..MaxEvents} }

\* what the API holds when a schedule is read or updated
ScheduleServers ==
  { [schedules |-> schedules, rosters |-> {}, teams |-> {}] :
      schedules \in {{}} \cup {{sc} : sc \in StoredSchedules} }

\* what the API holds when a schedule is created: nothing, or a schedule
\* under the same key
NewScheduleServers ==
  { [schedules |-> schedules, rosters |-> {}, teams |-> {}] :
      schedules \in {{}} \cup {{sc} : sc \in {st \in StoredSchedules : Len(st.Events) = 1}} }

\* what the API holds when a roster is created
RosterServers ==
  { [schedules |-> {}, rosters |-> rosters, teams |-> {}] :
      rosters \in { {}, {[Team |-> <<"t">>, Name |-> <<"t">>, Users |-> {}]} } }

UsCentral == <<"U","S","/","C","e","n","t","r","a","l">>

TeamConfigs ==
  { [Resource("team", <<>>, <<>>, <<>>, "", <<>>, <<>>, teamName, {}) EXCEPT
       !.scheduling_timezone = timezone, !.email = email, !.admins = admins] :
      teamName \in { <<>>, <<"t">>, <<"n","e","w">> },
      timezone \in { <<>>, UsCentral },
      email \in { <<>>, <<"t","@","x">> },
      admins \in { {}, {"alice"} } }

\* what the API holds when a team is created or updated
TeamServers ==
  { [schedules |-> {}, rosters |-> {}, teams |-> teams] :
      teams \in { {}, {[Name |-> <<"t">>, SchedulingTimezone |-> <<"U","T","C">>,
                        Email |-> <<>>, Admins |-> {"bob"}]} } }

\* d.Id() of a resource that exists: a schedule key, a roster key
ResourceIDs == { <<"t","/","r","/","p","r","i","m","a","r","y">>, <<"t","/","r">> }

InitCrud ==
  /\ op = "idle"
  /\ \/ /\ data \in BasicConfigs \cup AdvancedConfigs
        /\ \/ id = <<>> /\ server \in NewScheduleServers
           \/ /\ id \in ResourceIDs
              /\ IF parseScheduleID(id).err = nil
                   THEN server \in ScheduleServers ELSE server \in NewScheduleServers
     \/ /\ data \in RosterConfigs
        /\ id = <<>>
        /\ server \in RosterServers
     \/ /\ data \in TeamConfigs
        /\ id \in { <<>>, <<"t">> }
        /\ server \in TeamServers
  /\ calls = <<>>
  /\ err = nil
  /\ team = <<>>
  /\ roster = <<>>
  /\ role = <<>>
  /\ parsed = <<>>
  /\ weekday = <<>>
  /\ startTime = <<>>
  /\ hours = 0
  /\ minutes = 0
  /\ seconds = 0
  /\ days = 0
  /\ NoEvent
  /\ NoDuration

\* what a handler leaves alone
handlerFrame == <<weekVars, offsetVars, durVars, team, roster, role, parsed>>

\* the handler's result becomes the state
Returns(res, handler) ==
  /\ data' = res.data
  /\ id' = res.id
  /\ calls' = res.calls
  /\ server' = res.server
  /\ err' = res.err
  /\ op' = handler
  /\ UNCHANGED handlerFrame

\* the result of a Read handler, which sets no ID and changes nothing the
\* API holds
ReadReturns(res, handler) ==
  /\ data' = res.data
  /\ calls' = res.calls
  /\ err' = res.err
  /\ op' = handler
  /\ UNCHANGED <<id, server, handlerFrame>>

ResourceBasicScheduleCreate ==
  /\ op = "idle" /\ data.kind = "basic" /\ id = <<>>
  /\ \E add \in Outcomes, get \in Outcomes :
       Returns(scheduleCreate(data, id, server, add, get), "resourceBasicScheduleCreate")

ResourceAdvancedScheduleCreate ==
  /\ op = "idle" /\ data.kind = "advanced" /\ id = <<>>
  /\ \E add \in Outcomes, get \in Outcomes :
       Returns(scheduleCreate(data, id, server, add, get), "resourceAdvancedScheduleCreate")

ResourceBasicScheduleRead ==
  /\ op = "idle" /\ data.kind = "basic" /\ id /= <<>>
  /\ \E get \in Outcomes :
       ReadReturns(resourceBasicScheduleRead(data, id, server, get), "resourceBasicScheduleRead")

ResourceAdvancedScheduleRead ==
  /\ op = "idle" /\ data.kind = "advanced" /\ id /= <<>>
  /\ \E get \in Outcomes :
       ReadReturns(resourceAdvancedScheduleRead(data, id, server, get), "resourceAdvancedScheduleRead")

ResourceBasicScheduleUpdate ==
  /\ op = "idle" /\ data.kind = "basic" /\ id /= <<>>
  /\ \E update \in Outcomes, populate \in Outcomes, get \in Outcomes :
       Returns(scheduleUpdate(data, id, server, update, populate, get), "resourceBasicScheduleUpdate")

ResourceAdvancedScheduleUpdate ==
  /\ op = "idle" /\ data.kind = "advanced" /\ id /= <<>>
  /\ \E update \in Outcomes, populate \in Outcomes, get \in Outcomes :
       Returns(scheduleUpdate(data, id, server, update, populate, get), "resourceAdvancedScheduleUpdate")

ResourceBasicScheduleDelete ==
  /\ op = "idle" /\ data.kind = "basic" /\ id /= <<>>
  /\ \E remove \in Outcomes :
       Returns(scheduleDelete(data, id, server, remove), "resourceBasicScheduleDelete")

ResourceAdvancedScheduleDelete ==
  /\ op = "idle" /\ data.kind = "advanced" /\ id /= <<>>
  /\ \E remove \in Outcomes :
       Returns(scheduleDelete(data, id, server, remove), "resourceAdvancedScheduleDelete")

ResourceRosterCreate ==
  /\ op = "idle" /\ data.kind = "roster" /\ id = <<>>
  /\ \E create \in Outcomes, setUsers \in Outcomes, get \in Outcomes :
       Returns(resourceRosterCreate(data, id, server, create, setUsers, get), "resourceRosterCreate")

ResourceTeamCreate ==
  /\ op = "idle" /\ data.kind = "team" /\ id = <<>>
  /\ \E create \in Outcomes, setAdmins \in Outcomes, get \in Outcomes :
       Returns(resourceTeamCreate(data, id, server, create, setAdmins, get), "resourceTeamCreate")

ResourceTeamUpdate ==
  /\ op = "idle" /\ data.kind = "team" /\ id /= <<>>
  /\ \E update \in Outcomes, get \in Outcomes :
       Returns(resourceTeamUpdate(data, id, server, update, get), "resourceTeamUpdate")

NextCrud ==
  \/ ResourceBasicScheduleCreate
  \/ ResourceAdvancedScheduleCreate
  \/ ResourceBasicScheduleRead
  \/ ResourceAdvancedScheduleRead
  \/ ResourceBasicScheduleUpdate
  \/ ResourceAdvancedScheduleUpdate
  \/ ResourceBasicScheduleDelete
  \/ ResourceAdvancedScheduleDelete
  \/ ResourceRosterCreate
  \/ ResourceTeamCreate
  \/ ResourceTeamUpdate

SpecCrud == InitCrud /\ [][NextCrud]_vars

(***************************************************************************)
(* Vocabulary of the properties.                                           *)
(***************************************************************************)
\* the kind of an error, decided by the message at the root of its chain
ErrorKind(e) ==
  IF e = nil THEN "none"
  ELSE LET root == e[Len(e)]
       IN  IF root \in {"Provided time must be in 24 hour format: HH:MM", "invalid syntax"}
             THEN "MalformedTime"
           ELSE IF root \in {"Your provided hours must be 0 - 23",
                             "Your provided minutes must be 0 - 59"}
             THEN "OutOfRange"
           ELSE IF root = "You did not specify a valid day name"
             THEN "UnknownWeekday"
           ELSE "other"

ColonCount(text) == Cardinality({k \in 1..Len(text) : text[k] = ":"})

AllDigits(part) == \A k \in 1..Len(part) : IsDigit(part[k])

\* the text before and the text after position c
Before(text, c) == SubSeq(text, 1, c - 1)

After(text, c) == SubSeq(text, c + 1, Len(text))

\* position of the colon of a text that has exactly one
ColonAt(text) == CHOOSE k \in 1..Len(text) : text[k] = ":"

\* a text of two non-empty numeric parts around one colon
IsNumericClock(text) ==
  /\ ColonCount(text) = 1
  /\ Before(text, ColonAt(text)) /= <<>>
  /\ After(text, ColonAt(text)) /= <<>>
  /\ AllDigits(Before(text, ColonAt(text)))
  /\ AllDigits(After(text, ColonAt(text)))

\* text starts with the given prefix and continues after it
StartsWith(text, prefix) ==
  Len(text) > Len(prefix) /\ SubSeq(text, 1, Len(prefix)) = prefix

\* wd is name with some of its letters in the other case
IsRecasing(wd, name) ==
  /\ Len(wd) = Len(name)
  /\ \A k \in 1..Len(name) : wd[k] \in {UpperChar(name[k]), LowerChar(name[k])}

MatchesCanonical(wd) == \E k \in 1..Len(daysOfWeek) : IsRecasing(wd, daysOfWeek[k])

Monday == daysOfWeek[2]

Saturday == daysOfWeek[7]

(***************************************************************************)
(* C1: round trip. For every weekday index i in 0..6, hour h in 0..23 and  *)
(* minute m in 0..59, secondsToDayHourMinute applied to the offset that    *)
(* weekdayStartTimeToSeconds returns for daysOfWeek[i] and the "HH:MM"     *)
(* text of h and m gives back exactly (i, h, m).                           *)
(***************************************************************************)
C1_RoundTrip ==
  op = "secondsToDayHourMinute" =>
    \A i \in 0..6 : weekday = daysOfWeek[i + 1] =>
      \A h \in 0..23 : StartsWith(startTime, Sprintf02d(h) \o <<":">>) =>
        \A m \in 0..59 : startTime = SprintfHHMM(h, m) =>
          days = i /\ hours = h /\ minutes = m

C1_Witness ==
  /\ op = "secondsToDayHourMinute"
  /\ weekday = Saturday
  /\ startTime = SprintfHHMM(23, 59)
  /\ days = 6 /\ hours = 23 /\ minutes = 59

(***************************************************************************)
(* C2: for every canonical weekday name with index i and every valid clock *)
(* text denoting hour h in 0..23 and minute m in 0..59 (with or without    *)
(* leading zeros), weekdayStartTimeToSeconds succeeds and returns          *)
(* i*86400 + h*3600 + m*60.                                                *)
(***************************************************************************)
C2_ForwardValue ==
  op = "weekdayStartTimeToSeconds" =>
    \A i \in 0..6 : weekday = daysOfWeek[i + 1] =>
      \A h \in 0..23, j \in 0..MaxPad :
        StartsWith(startTime, Zeros(j) \o Itoa(h) \o <<":">>) =>
          \A m \in 0..59, k \in 0..MaxPad :
            startTime = Zeros(j) \o Itoa(h) \o <<":">> \o Zeros(k) \o Itoa(m) =>
              err = nil /\ seconds = i * 86400 + h * 3600 + m * 60

C2_Witness ==
  /\ op = "weekdayStartTimeToSeconds"
  /\ weekday = Monday
  /\ startTime = <<"2","3",":","5","8">>
  /\ err = nil
  /\ seconds = 172680

(***************************************************************************)
(* C3: every successful result of weekdayStartTimeToSeconds lies in the    *)
(* range [0, 604800).                                                      *)
(***************************************************************************)
C3_OffsetInWeek ==
  (op = "weekdayStartTimeToSeconds" /\ err = nil) =>
    (0 <= seconds /\ seconds < 604800)

C3_Witness ==
  /\ op = "weekdayStartTimeToSeconds"
  /\ err = nil
  /\ weekday = Saturday
  /\ seconds = 604740

(***************************************************************************)
(* C4: a clock text of two numeric parts whose hour is outside 0..23 or    *)
(* whose minute is outside 0..59 makes parseHourMinStr fail with an        *)
(* out-of-range error, and weekdayStartTimeToSeconds return -1 with that   *)
(* error.                                                                  *)
(***************************************************************************)
NumericOutOfRange(text) ==
  /\ IsNumericClock(text)
  /\ \/ DecimalValue(Before(text, ColonAt(text))) \notin 0..23
     \/ DecimalValue(After(text, ColonAt(text))) \notin 0..59

C4_OutOfRange ==
  NumericOutOfRange(startTime) =>
    /\ op = "parseHourMinStr" => ErrorKind(err) = "OutOfRange"
    /\ op = "weekdayStartTimeToSeconds" =>
         seconds = -1 /\ ErrorKind(err) = "OutOfRange"

C4_Witness ==
  /\ op = "weekdayStartTimeToSeconds"
  /\ weekday = Monday
  /\ startTime = <<"2","3",":","6","0">>
  /\ seconds = -1
  /\ ErrorKind(err) = "OutOfRange"

(***************************************************************************)
(* C5: with a valid clock text, weekdayStartTimeToSeconds fails for every  *)
(* weekday name that matches none of the 7 canonical names, returning -1   *)
(* with a non-nil error; it never returns a non-negative value together    *)
(* with an error.                                                          *)
(***************************************************************************)
C5_UnknownWeekday ==
  op = "weekdayStartTimeToSeconds" =>
    /\ (startTime \in ValidClockTexts /\ ~MatchesCanonical(weekday)) =>
         seconds = -1 /\ ErrorKind(err) = "UnknownWeekday"
    /\ err /= nil => seconds = -1

C5_Witness ==
  /\ op = "weekdayStartTimeToSeconds"
  /\ weekday = <<"O","l","i","v","e","r","d","a","y">>
  /\ startTime = <<"2","3",":","5","8">>
  /\ seconds = -1
  /\ ErrorKind(err) = "UnknownWeekday"

(***************************************************************************)
(* C6: parseHourMinStr fails with a malformed-time error whenever the hour *)
(* part or the minute part contains a non-digit character, sign characters *)
(* included.                                                               *)
(***************************************************************************)
HasNonDigitPart(text) ==
  /\ ColonCount(text) = 1
  /\ \/ ~AllDigits(Before(text, ColonAt(text)))
     \/ ~AllDigits(After(text, ColonAt(text)))

C6_NonDigitMalformed ==
  (op = "parseHourMinStr" /\ HasNonDigitPart(startTime)) =>
    ErrorKind(err) = "MalformedTime"

(***************************************************************************)
(* C7: parseHourMinStr rejects with a malformed-time error every text that *)
(* has no colon or has two or more colons.                                 *)
(***************************************************************************)
C7_SplitInTwo ==
  (op = "parseHourMinStr" /\ ColonCount(startTime) /= 1) =>
    ErrorKind(err) = "MalformedTime"

C7_Witness ==
  /\ op = "parseHourMinStr"
  /\ startTime = <<"1","2",":","3","0",":","0","0">>
  /\ ErrorKind(err) = "MalformedTime"

(***************************************************************************)
(* C8: leading zeros never change the parsed value. For digit-only parts,  *)
(* parseHourMinStr returns the same result when any number of '0'          *)
(* characters is put before a part, and a part made only of '0' characters *)
(* parses as 0.                                                            *)
(***************************************************************************)
DigitOnlyParts(text) ==
  /\ ColonCount(text) = 1
  /\ AllDigits(Before(text, ColonAt(text)))
  /\ AllDigits(After(text, ColonAt(text)))

C8_LeadingZeros ==
  (op = "parseHourMinStr" /\ DigitOnlyParts(startTime)) =>
    LET hp == Before(startTime, ColonAt(startTime))
        mp == After(startTime, ColonAt(startTime))
    IN  /\ \A j \in 0..(MaxPad + 1), k \in 0..(MaxPad + 1) :
             parseHourMinStr(Zeros(j) \o hp \o <<":">> \o Zeros(k) \o mp)
               = [hours |-> hours, minutes |-> minutes, err |-> err]
        /\ (hp /= <<>> /\ hp = Zeros(Len(hp))) => hours = 0
        /\ (mp /= <<>> /\ mp = Zeros(Len(mp))) => minutes = 0
        /\ (hp /= <<>> /\ mp /= <<>>) =>
             hours = DecimalValue(hp) /\ minutes = DecimalValue(mp)

C8_Witness ==
  /\ op = "parseHourMinStr"
  /\ startTime = <<"0","0","7",":","0","5">>
  /\ hours = 7 /\ minutes = 5 /\ err = nil

(***************************************************************************)
(* C9: weekdayStartTimeToSeconds matches the weekday name without regard   *)
(* to letter case: every re-casing of a canonical name gives the offset of *)
(* the canonical spelling.                                                 *)
(***************************************************************************)
C9_CaseInsensitive ==
  op = "weekdayStartTimeToSeconds" =>
    \A i \in 0..6 : IsRecasing(weekday, daysOfWeek[i + 1]) =>
      /\ [seconds |-> seconds, err |-> err]
           = weekdayStartTimeToSeconds(daysOfWeek[i + 1], startTime)
      /\ startTime \in ValidClockTexts =>
           err = nil /\ seconds \div 86400 = i

C9_Witness ==
  /\ op = "weekdayStartTimeToSeconds"
  /\ weekday = <<"m","O","n","D","a","Y">>
  /\ startTime = <<"2","3",":","5","8">>
  /\ err = nil
  /\ seconds = 172680

(***************************************************************************)
(* C10: every weekday string that weekdayStartTimeToSeconds accepts is     *)
(* also accepted by the start_day_of_week validation of the schedule       *)
(* resources.                                                              *)
(***************************************************************************)
C10_ValidationAcceptsAnyCase ==
  (op = "validateStartDayOfWeek"
     /\ weekdayStartTimeToSeconds(weekday, startTime).err = nil) =>
    err = nil

(***************************************************************************)
(* C11: secondsToDayHourMinute is total over the non-negative integers:    *)
(* for every s >= 0 it returns days = s div 86400, hours = (s mod 86400)   *)
(* div 3600 and minutes = ((s mod 86400) mod 3600) div 60, and an s of     *)
(* 604800 or more yields days >= 7.                                        *)
(***************************************************************************)
C11_InverseTotal ==
  op = "inverseOfEventStart" =>
    /\ days = eventStart \div 86400
    /\ hours = (eventStart % 86400) \div 3600
    /\ minutes = ((eventStart % 86400) % 3600) \div 60
    /\ eventStart >= 604800 => days >= 7

C11_Witness ==
  /\ op = "inverseOfEventStart"
  /\ eventStart = 604800 + 45060
  /\ days = 7 /\ hours = 12 /\ minutes = 31

(***************************************************************************)
(* C12 as stated: for every offset s in [0, 604800), splitting s with      *)
(* secondsToDayHourMinute, rendering it as Read does and converting the    *)
(* rendered fields with weekdayStartTimeToSeconds returns s.               *)
(***************************************************************************)
C12_LosslessEveryOffset ==
  (op = "convertedBack" /\ eventStart \in 0..604799) =>
    err = nil /\ seconds = eventStart

(***************************************************************************)
(* C12 amended: for every offset s in [0, 604800) the conversion back      *)
(* succeeds and returns s without its seconds within the minute,           *)
(* s - (s mod 60); it returns s exactly when s is a whole number of        *)
(* minutes.                                                                *)
(***************************************************************************)
C12_LosslessWholeMinutes ==
  (op = "convertedBack" /\ eventStart \in 0..604799) =>
    /\ err = nil
    /\ seconds = eventStart - (eventStart % 60)
    /\ (seconds = eventStart) <=> (eventStart % 60 = 0)

C12_Witness ==
  /\ op = "convertedBack"
  /\ eventStart = 172680
  /\ weekday = Monday
  /\ startTime = <<"2","3",":","5","8">>
  /\ err = nil
  /\ seconds = 172680


\* "<n><unit>", or nothing when the count is zero
UnitText(n, u) == IF n = 0 THEN <<>> ELSE Itoa(n) \o <<u>>

\* C13: prettyPrintDuration(x) for x >= 0 is the greedy decomposition of x
\* into weeks, days, hours, minutes and seconds: in that order and without
\* separators it writes "<n><unit>" for the units whose count is not zero,
\* with days < 7, hours < 24, minutes < 60 and seconds < 60; x = 0 gives the
\* empty text.
C13_GreedyDecomposition ==
  op = "printed" =>
    /\ durationString =
         UnitText(dur \div 604800, "w")
           \o UnitText((dur % 604800) \div 86400, "d")
           \o UnitText((dur % 86400) \div 3600, "h")
           \o UnitText((dur % 3600) \div 60, "m")
           \o UnitText(dur % 60, "s")
    /\ dur = 0 => durationString = <<>>

C13_Witness ==
  /\ op = "printed"
  /\ dur = 2 * 604800 + 23 * 3600 + 59
  /\ durationString = <<"2","w","2","3","h","5","9","s">>

\* C14: for every whole number of seconds x >= 0, x = 0 included, parsing the
\* text prettyPrintDuration(x) with duration.ParseDuration succeeds and
\* gives exactly x seconds.
C14_DurationRoundTrip ==
  op = "parsedBack" => err = nil /\ parsedDuration = dur

\* one or more tokens <integer><unit> over the units w, d, h, m, s
RECURSIVE ShorthandTokens(_)
ShorthandTokens(s) ==
  \/ s = <<>>
  \/ LET n == DigitPrefixLen(s)
     IN  /\ n > 0
         /\ Len(s) > n
         /\ s[n + 1] \in {"w", "d", "h", "m", "s"}
         /\ ShorthandTokens(Drop(s, n + 1))

IsShorthand(s) == s /= <<>> /\ ShorthandTokens(s)

\* C15: every duration text accepted for a shift becomes a non-negative
\* number of seconds, and a text that is negative, fractional or outside the
\* grammar of <integer><unit> tokens over w, d, h, m, s is rejected with a
\* malformed-duration error.
C15_AcceptedIsShorthand ==
  op = "shiftDuration" =>
    /\ err = nil => parsedDuration >= 0
    /\ ~IsShorthand(durationString) => err /= nil


\* C16: when the clock text is invalid, weekdayStartTimeToSeconds fails with
\* the error of parseHourMinStr whatever the weekday is: with an unknown
\* weekday and an invalid clock text the error is the one of the clock text.
C16_TimeErrorFirst ==
  (op = "weekdayStartTimeToSeconds" /\ parseHourMinStr(startTime).err /= nil) =>
    /\ seconds = -1
    /\ err = Wrap(parseHourMinStr(startTime).err, "Failed to parse HH:MM input")
    /\ ErrorKind(err) /= "UnknownWeekday"

C16_Witness ==
  /\ op = "weekdayStartTimeToSeconds"
  /\ weekday = <<"O","l","i","v","e","r","d","a","y">>
  /\ startTime = <<"2","3",":","6","0">>
  /\ err = <<"Failed to parse HH:MM input", "Your provided minutes must be 0 - 59">>


\* a name of a key: not empty and without a slash
IsName(n) == n /= <<>> /\ \A k \in 1..Len(n) : n[k] /= "/"

SlashCount(key) == Cardinality({k \in 1..Len(key) : key[k] = "/"})

\* the key is n names joined by slashes: n - 1 slashes, none at either end
\* and no two in a row
JoinsNames(key, n) ==
  /\ key /= <<>>
  /\ SlashCount(key) = n - 1
  /\ key[1] /= "/"
  /\ key[Len(key)] /= "/"
  /\ \A k \in 1..(Len(key) - 1) : ~(key[k] = "/" /\ key[k + 1] = "/")

\* C18: for team, roster and role names that are not empty and hold no
\* slash, parseRosterID(getRosterID(team, roster)) gives (team, roster) and
\* parseScheduleID(getScheduleID(team, roster, role)) gives (team, roster,
\* role) without error; a key that is not exactly 2 (roster) or 3 (schedule)
\* non-empty parts joined by slashes is rejected with an error.
C18_KeysRoundTrip ==
  /\ op = "parseRosterID" =>
       /\ (IsName(team) /\ IsName(roster)) => err = nil /\ parsed = <<team, roster>>
       /\ ~JoinsNames(id, 2) => err /= nil
  /\ op = "parseScheduleID" =>
       /\ (IsName(team) /\ IsName(roster) /\ IsName(role)) =>
            err = nil /\ parsed = <<team, roster, role>>
       /\ ~JoinsNames(id, 3) => err /= nil

C18_Witness ==
  /\ op = "parseScheduleID"
  /\ team = <<"a","b">>
  /\ roster = <<"b">>
  /\ role = <<"b","a">>
  /\ id = <<"a","b","/","b","/","b","a">>
  /\ parsed = <<team, roster, role>>
  /\ err = nil


\* the weekday and clock text, or a duration, of the configuration does not
\* convert
ConversionFails(r) ==
  IF r.kind = "basic"
    THEN weekdayStartTimeToSeconds(r.start_day_of_week, r.start_time).err /= nil
    ELSE \E k \in 1..Len(r.shift) :
           \/ weekdayStartTimeToSeconds(r.shift[k].start_day_of_week,
                                        r.shift[k].start_time).err /= nil
           \/ ParseDuration(r.shift[k].duration).err /= nil

ScheduleWriters ==
  { "resourceBasicScheduleCreate", "resourceBasicScheduleUpdate",
    "resourceAdvancedScheduleCreate", "resourceAdvancedScheduleUpdate" }

\* C17: when the conversion of the weekday and time or of a duration fails,
\* the Create and Update handlers of both schedule resources return an
\* error, send no request to the API and leave the resource ID as it was.
C17_ConversionErrorsTerminal ==
  [][ (op' \in ScheduleWriters /\ ConversionFails(data)) =>
        /\ err' /= nil
        /\ calls' = <<>>
        /\ id' = id
        /\ server' = server ]_vars

C17_Witness ==
  /\ op = "resourceAdvancedScheduleCreate"
  /\ data.roster_id = <<"t","/","r">>
  /\ Len(data.shift) = 2
  /\ data.shift[1].duration = <<"8","h">>
  /\ data.shift[2].duration = <<"8"," ","h","o","u","r","s">>
  /\ err = <<"Failed to parse resource into oncall schedule",
             "Failed to parse duration", "time: unknown unit in duration">>
  /\ calls = <<>>
  /\ id = <<>>

\* C19: in resourceBasicScheduleRead and resourceAdvancedScheduleRead the
\* index into daysOfWeek is within 0..6 for every event start the API can
\* return: Read never indexes the weekday table out of range.
C19_ReadIndexInRange ==
  op \in {"resourceBasicScheduleRead", "resourceAdvancedScheduleRead"} =>
    err /= IndexOutOfRange

\* the name resourceRosterCreate creates the roster under
CreatedName(r) == IF r.name = <<>> THEN r.team ELSE r.name

\* C20: resourceRosterCreate uses the team name as the roster name when the
\* configured name is blank: the roster is created as team/team and the ID
\* becomes "team/team"; with a name the ID is "team/name".
C20_BlankNameIsTeamName ==
  [][ op' = "resourceRosterCreate" =>
        /\ calls' /= <<>> =>
             calls'[1] = Request("CreateRoster", <<data.team, CreatedName(data)>>)
        /\ server' /= server =>
             /\ id' = data.team \o <<"/">> \o CreatedName(data)
             /\ \E ro \in server'.rosters : ro.Team = data.team /\ ro.Name = CreatedName(data)
        /\ id' /= <<>> => id' = data.team \o <<"/">> \o CreatedName(data) ]_vars

C20_Witness ==
  /\ op = "resourceRosterCreate"
  /\ id = <<"t","/","t">>
  /\ calls[1] = Request("CreateRoster", <<<<"t">>, <<"t">>>>)
  /\ \E ro \in server.rosters : ro.Team = <<"t">> /\ ro.Name = <<"t">> /\ ro.Users = {"alice"}
  /\ err = nil


\* how many of the name and the scheduling timezone of a team are empty
EmptyTeamFields(r) ==
  (IF r.name = <<>> THEN 1 ELSE 0) + (IF r.scheduling_timezone = <<>> THEN 1 ELSE 0)

\* C21: a team whose name or scheduling_timezone is empty is never sent to
\* the API: resourceTeamCreate and resourceTeamUpdate return one error
\* diagnostic per empty field, call neither CreateTeam nor UpdateTeam and
\* leave the resource ID as it was.
C21_EmptyTeamFieldsRefused ==
  [][ (op' \in {"resourceTeamCreate", "resourceTeamUpdate"} /\ EmptyTeamFields(data) > 0) =>
        /\ Len(err') = EmptyTeamFields(data)
        /\ calls' = <<>>
        /\ id' = id
        /\ server' = server ]_vars

C21_Witness ==
  /\ op = "resourceTeamUpdate"
  /\ id = <<"t">>
  /\ data.name = <<>>
  /\ data.scheduling_timezone = <<>>
  /\ err = <<"You must specify a non-empty name",
             "You must specify a non-empty scheduling_timezone">>
  /\ calls = <<>>


CreateHandlers == {"resourceBasicScheduleCreate", "resourceAdvancedScheduleCreate"}

\* AddRosterSchedule succeeded in the step: the API holds a schedule more
ScheduleAdded == server'.schedules /= server.schedules

\* C22: in resourceBasicScheduleCreate and resourceAdvancedScheduleCreate the
\* resource ID is set if and only if AddRosterSchedule succeeded, and is then
\* roster_id, "/" and role; every failure path (unparseable roster_id,
\* conversion error, API error, API 422) returns an error and leaves the ID
\* unset.
C22_IdSetIffAdded ==
  [][ op' \in CreateHandlers =>
        /\ (id' /= <<>>) <=> ScheduleAdded
        /\ ScheduleAdded => id' = data.roster_id \o <<"/">> \o data.role
        /\ ~ScheduleAdded => err' /= nil /\ id' = <<>> ]_vars

C22_Witness ==
  /\ op = "resourceAdvancedScheduleCreate"
  /\ id = <<"t", "/", "r", "/", "p", "r", "i", "m", "a", "r", "y">>
  /\ Len(calls) = 2
  /\ calls[1].name = "AddRosterSchedule"
  /\ server.schedules /= {}
  /\ err = nil

\* a Create that the API refused with 422 and that left the ID unset
C22_ConflictWitness ==
  /\ op = "resourceBasicScheduleCreate"
  /\ id = <<>>
  /\ Len(calls) = 1
  /\ Len(err) > 0
  /\ err[Len(err)] = Conflict


\* C23: a failure of the read-back inside Create is reported to the caller:
\* when AddRosterSchedule succeeded, the diagnostics Create returns are the
\* diagnostics of the read-back that left the resource data as Create left
\* it, an error when that read-back failed.
C23_ReadBackFailureReported ==
  [][ (op' \in CreateHandlers /\ ScheduleAdded) =>
        \E get \in Outcomes :
          /\ data' = scheduleRead(data, id', server', get).data
          /\ err' = scheduleRead(data, id', server', get).err ]_vars


UpdateHandlers == {"resourceBasicScheduleUpdate", "resourceAdvancedScheduleUpdate"}

RECURSIVE CallNames(_)
CallNames(sent) ==
  IF sent = <<>> THEN <<>> ELSE <<Head(sent).name>> \o CallNames(Tail(sent))

\* the API holds, under the key of the resource ID, the schedule built from r
HoldsScheduleOf(srv, r, rid) ==
  /\ scheduleFromResource(r).err = nil
  /\ [scheduleFromResource(r).sched EXCEPT !.Team = parseScheduleID(rid).team,
                                           !.Roster = parseScheduleID(rid).roster]
       \in srv.schedules

\* C24: schedule Update calls UpdateRosterSchedule, then
\* PopulateRosterSchedule, then the read-back, in that order:
\* PopulateRosterSchedule is called only after UpdateRosterSchedule succeeded,
\* the read-back only after both succeeded, and a failure of either call
\* returns its error without executing the later steps.
C24_UpdateCallOrder ==
  [][ op' \in UpdateHandlers =>
        /\ CallNames(calls') \in
             { <<>>, <<"UpdateRosterSchedule">>,
               <<"UpdateRosterSchedule", "PopulateRosterSchedule">>,
               <<"UpdateRosterSchedule", "PopulateRosterSchedule", "GetRosterSchedule">> }
        /\ Len(calls') = 0 => err' /= nil /\ server' = server
        /\ Len(calls') = 1 =>
             /\ err' /= nil
             /\ err'[1] = "Updating oncall roster schedule"
             /\ server' = server
        /\ Len(calls') >= 2 => HoldsScheduleOf(server', data, id)
        /\ Len(calls') = 2 =>
             /\ err' /= nil
             /\ err'[1] = "Populating oncall roster schedule"
        /\ Len(calls') = 3 =>
             err' = nil \/ err'[1] \notin { "Updating oncall roster schedule",
                                            "Populating oncall roster schedule" } ]_vars

C24_Witness ==
  /\ op = "resourceBasicScheduleUpdate"
  /\ CallNames(calls) =
       <<"UpdateRosterSchedule", "PopulateRosterSchedule", "GetRosterSchedule">>
  /\ err = nil

\* an Update that stopped at a failed PopulateRosterSchedule
C24_PopulateFailedWitness ==
  /\ op = "resourceAdvancedScheduleUpdate"
  /\ CallNames(calls) = <<"UpdateRosterSchedule", "PopulateRosterSchedule">>
  /\ err = <<"Populating oncall roster schedule", ServerError>>


\* the entry of daysOfWeek a weekday text names, in any case of the letters
CanonicalDay(day) ==
  daysOfWeek[CHOOSE k \in 1..Len(daysOfWeek) : ToLower(daysOfWeek[k]) = ToLower(day)]

\* a part of a clock text without its leading zeros, in two digits at least
PadPart(part) ==
  IF Len(trimLeadingZeros(part)) = 1 THEN <<"0">> \o trimLeadingZeros(part)
  ELSE trimLeadingZeros(part)

\* a clock text as zero-padded HH:MM
PaddedTime(time) ==
  PadPart(Split(time, ":")[1]) \o <<":">> \o PadPart(Split(time, ":")[2])

\* C25: basic-schedule rotation round trip: basicScheduleFromResource builds
\* exactly one event with AdvancedMode 0 and Duration 604800 for "weekly" or
\* 1209600 for "bi-weekly", and reading that schedule back (the Read that
\* ends a successful Update) sets rotate_frequency, start_day_of_week and
\* start_time to the configured values, the day under its canonical name and
\* the time as zero-padded HH:MM.
C25_BasicRotationRoundTrip ==
  [][ (op' = "resourceBasicScheduleUpdate" /\ basicScheduleFromResource(data).err = nil) =>
        /\ basicScheduleFromResource(data).sched.AdvancedMode = 0
        /\ Len(basicScheduleFromResource(data).sched.Events) = 1
        /\ basicScheduleFromResource(data).sched.Events[1].Duration =
             IF data.rotate_frequency = "weekly" THEN 604800 ELSE 1209600
        /\ (Len(calls') = 3 /\ err' = nil) =>
             /\ data'.rotate_frequency = data.rotate_frequency
             /\ data'.start_day_of_week = CanonicalDay(data.start_day_of_week)
             /\ data'.start_time = PaddedTime(data.start_time) ]_vars

C25_Witness ==
  /\ op = "resourceBasicScheduleUpdate"
  /\ Len(calls) = 3
  /\ err = nil
  /\ data.rotate_frequency = "bi-weekly"
  /\ data.start_day_of_week = <<"S","u","n","d","a","y">>
  /\ data.start_time = <<"0","9",":","0","5">>


NotOneEvent ==
  <<"The schedule you are reading is not a basic schedule as it does not have exactly one event">>

\* C26: when resourceBasicScheduleRead fails because the fetched schedule
\* does not have exactly one event, it has left every field of the resource
\* data (role, roster_id, auto_populate_days, scheduling_algorithim,
\* rotate_frequency, start_day_of_week, start_time) unchanged.
C26_FailedReadChangesNothing ==
  [][ (op' = "resourceBasicScheduleRead" /\ err' = NotOneEvent) =>
        /\ data'.role = data.role
        /\ data'.roster_id = data.roster_id
        /\ data'.auto_populate_days = data.auto_populate_days
        /\ data'.scheduling_algorithim = data.scheduling_algorithim
        /\ data'.rotate_frequency = data.rotate_frequency
        /\ data'.start_day_of_week = data.start_day_of_week
        /\ data'.start_time = data.start_time ]_vars


\* the seconds a duration text parses to, -1 when it does not parse
ParsedSeconds(text) ==
  IF ParseDuration(text).err /= nil THEN -1 ELSE IntSeconds(ParseDuration(text).d)

\* C27: advanced-schedule shifts keep their count and order in both
\* directions: writing n valid shifts and reading them back (the Read that
\* ends a successful Update) yields n shifts, the i-th with the weekday and
\* the HH:MM of the i-th configured shift and a duration text that parses to
\* the same number of seconds.
C27_ShiftsRoundTrip ==
  [][ (op' = "resourceAdvancedScheduleUpdate" /\ Len(calls') = 3 /\ err' = nil) =>
        /\ Len(data'.shift) = Len(data.shift)
        /\ \A k \in 1..Len(data.shift) :
             /\ data'.shift[k].start_day_of_week = CanonicalDay(data.shift[k].start_day_of_week)
             /\ data'.shift[k].start_time = PaddedTime(data.shift[k].start_time)
             /\ ParsedSeconds(data'.shift[k].duration) = ParsedSeconds(data.shift[k].duration) ]_vars


DeleteHandlers == {"resourceBasicScheduleDelete", "resourceAdvancedScheduleDelete"}

\* the API holds no schedule under the key of the resource ID
ScheduleGone(srv, rid) ==
  Stored(srv, parseScheduleID(rid).team, parseScheduleID(rid).roster,
         parseScheduleID(rid).role) = {}

\* C28: schedule Delete clears the resource ID exactly when the schedule is
\* gone: once RemoveRosterSchedule was called, a Delete without error has set
\* the ID to "" and the API no longer holds the schedule, a Delete with an
\* error has kept the ID, and "Did not find schedule" is never the error:
\* deleting a schedule that is already gone succeeds.
C28_DeleteClearsIdWhenGone ==
  [][ (op' \in DeleteHandlers /\ Len(calls') = 1) =>
        /\ err' = nil => id' = <<>> /\ ScheduleGone(server', id)
        /\ err' /= nil => id' = id /\ ~ContainsNotFound(err') ]_vars

====
